---- MODULE Spec2Model ----
(***************************************************************************)
(* Model of the scan orchestration of viralsafe-platform-free:             *)
(* backend/performance_optimizer.py (PerformanceOptimizer: tiered adapter  *)
(* fan-out, composite scoring, in-memory TTL cache) and the /ultra-scan    *)
(* and /batch-scan bindings of backend/main.py; the weighted ensemble of  *)
(* backend/enhanced_ai_analyzer.py; the health record and rate limiter of  *)
(* backend/virustotal.py (VirusTotalAPI) and the RateLimiter of            *)
(* backend/virustotal_service.py.                                          *)
(*                                                                         *)
(* Python dicts are modelled as TLA+ functions with string domains, so     *)
(* `"error" not in d` is `"error" \notin DOMAIN d` and d.get(k, v) is      *)
(* Get(d, k, v).  Floating-point scores are carried as exact integers in   *)
(* tenths (base_score) and halves (confidence); the one place where the    *)
(* IEEE-754 double differs from the exact value is modelled by FloatShort. *)
(***************************************************************************)
EXTENDS Integers, Sequences, FiniteSets, TLC

\* ------------------------------------------------------------------ bounds
MaxScans == 2        \* ultra_fast_scan invocations explored with a clock
MaxFullScans == 1    \* invocations explored with every adapter outcome
MaxTicks == 2        \* number of clock advances explored
MaxVtCalls == 6      \* VirusTotalAPI calls explored, initialize() included
MaxCallers == 2      \* concurrent callers of _rate_limit_check
MaxRateCalls == 5    \* calls of each rate limiter made one after another
MaxBurst == 9        \* _rate_limit_check calls made by concurrent callers
MaxClock == 2        \* seconds that may pass between the calls of a burst
MaxWaitCalls == 6    \* calls of each limiter while the other is in use too
MaxTargets == 4      \* URLs in one batch
MaxConcurrent == 2   \* largest max_concurrent of a batch
MaxDailyLeft == 5    \* requests left of the daily quota when it runs short
MaxRoom == 2         \* free slots of a cache that is about to fill up
MaxWindows == 2      \* rate-limit windows that may pass without a call
MaxAnalyses == 4     \* analyses whose analytics update has run
MaxAiCalls == 3      \* multi_ai_analysis calls made one after another
MaxThreatUrls == 2   \* URLs checked against the threat feeds

\* ------------------------------------------------------- program constants
cache_ttl == 3600          \* self.cache_ttl
max_cache_size == 1000     \* self.max_cache_size
EvictBatch == 100          \* sorted_cache[:100]
BaseScore == 85            \* base_score = 85
rate_limit == 4            \* settings.VIRUSTOTAL_RATE_LIMIT (default)
RateWindow == 60           \* now - req_time < 60
ErrorThreshold == 3        \* consecutive_failures >= 3
StaleAfter == 3600         \* time_since_check > 3600
max_requests == 4          \* VirusTotalConfig.rate_limit
time_window == 60          \* RateLimiter(time_window=60)
DailyLimit == 500          \* self.daily_requests >= 500
DaySeconds == 86400        \* timedelta(days=1)
AiCacheTtl == 3600         \* EnhancedAIAnalyzer.cache_ttl
ThreatCacheTtl == 1800     \* ThreatIntelligence.cache_ttl
ThreatCacheMax == 500      \* len(self.threat_cache) > 500
ThreatEvictBatch == 100    \* sorted_cache[:100] of the threat cache

\* ---------------------------------------------------------- dict helpers
Get(d, k, dflt) == IF k \in DOMAIN d THEN d[k] ELSE dflt

HasError(d) == "error" \in DOMAIN d

Max(a, b) == IF a >= b THEN a ELSE b
Min(a, b) == IF a <= b THEN a ELSE b

\* Python int() of the rational n / q (q > 0): truncation toward zero.
TruncDiv(n, q) == IF n >= 0 THEN n \div q ELSE -((-n) \div q)

\* ------------------------------------------- adapter outputs (value sets)
\* _quick_http_check: a response, or the except-branch record.
HttpStatusCodes == {200, 301, 404}
HttpResponseTimes == {50, 3500}
HttpOk(code, rt) ==
    [status_code |-> code, response_time_ms |-> rt,
     quick_assessment |-> IF code = 200 THEN "healthy" ELSE "issues_detected"]
HttpFail == [error |-> "ClientError", quick_assessment |-> "connection_failed"]

\* _ai_analysis_optimized: what multi_ai_analysis reported, or the
\* except-branch record (which carries a default ai_threat_score of 50).
AiThreats == {0, 29, 45, 71, 85, 90, 100}
AiConfidences == {0, 70, 85, 90, 99}
AiOk(threat, conf) == [ai_threat_score |-> threat, ai_confidence |-> conf]
AiFail == [error |-> "ClientError", ai_threat_score |-> 50]

\* _security_headers_quick: int(present / 4 * 100), or the except record.
HeaderCounts == 0 .. 4
HeadersOk(present) ==
    [security_score |-> (present * 100) \div 4, headers_present |-> present,
     has_hsts |-> present >= 1, has_csp |-> present >= 2]
HeadersFail == [error |-> "ClientError", security_score |-> 0]

\* _content_analysis_lite
KeywordCounts == {3, 4}
ContentOk(kw, iframes) ==
    [suspicious_keywords_count |-> kw, has_iframes |-> iframes,
     content_analysis |-> "completed"]
ContentFail == [error |-> "ClientError"]

\* _comprehensive_deep_scan
DeepOk == [deep_scan_completed |-> TRUE, scan_depth |-> "maximum"]
DeepFail == [error |-> "ScanError", deep_scan_completed |-> FALSE]

\* The record _parallel_optimized_scan stores when Tier 3 times out.
DeepTimeout ==
    [status |-> "timeout", message |-> "Deep scan exceeded time limit"]

\* The record _process_priority_results stores for a failed adapter;
\* <<"str", result>> stands for the string str(result).
Failed(result) == [error |-> <<"str", result>>, status |-> "failed"]

\* _process_priority_results, one entry: keep a dict without "error",
\* replace anything else by the failure record.
ProcessOne(result) == IF ~HasError(result) THEN result ELSE Failed(result)

AdapterNames ==
    {"http_quick", "ai_analysis", "security_headers", "content_lite",
     "deep_scan"}

\* --------------------------------------------------- composite scoring
\* The double b * 0.7 + (100 - t) * 0.3 is one ulp below its exact integer
\* value for exactly these (b, t) with b the score after the HTTP step and
\* t an integer in 0..100.
FloatShort(b, t) == <<b, t>> \in {<<85, 85>>, <<85, 95>>, <<90, 100>>}

\* Mutant of HttpImpact: a failed HTTP check costs nothing.
HttpImpactNoPenalty(scan_results) ==
    IF "http_quick" \in DOMAIN scan_results
       /\ ~HasError(scan_results["http_quick"])
       /\ Get(scan_results["http_quick"], "status_code", 0) = 200
    THEN [base |-> BaseScore + 5, conf2 |-> 200, rf |-> <<>>]
    ELSE [base |-> BaseScore, conf2 |-> 200, rf |-> <<>>]

\* HTTP step: [base (integer), conf2 (confidence in halves), rf]
HttpImpact(scan_results) ==
    IF "http_quick" \notin DOMAIN scan_results
    THEN [base |-> BaseScore, conf2 |-> 200, rf |-> <<>>]
    ELSE LET http_data == scan_results["http_quick"]
         IN  IF ~HasError(http_data)
             THEN LET code == Get(http_data, "status_code", 0)
                      b1 == IF Get(http_data, "status_code", -1) = 200
                            THEN BaseScore + 5
                            ELSE IF code >= 400 THEN BaseScore - 15
                                 ELSE BaseScore
                      rf1 == IF Get(http_data, "status_code", -1) # 200
                                /\ code >= 400
                             THEN <<"HTTP errors detected">> ELSE <<>>
                      slow == Get(http_data, "response_time_ms", 1000) > 3000
                  IN  [base |-> IF slow THEN b1 - 5 ELSE b1,
                       conf2 |-> 200,
                       rf |-> IF slow THEN Append(rf1, "Slow response time")
                              ELSE rf1]
             ELSE [base |-> BaseScore - 20, conf2 |-> 200 - 30,
                   rf |-> <<"HTTP connection failed">>]

\* AI step: base10 is the score in tenths, short the float deficit.
AiImpact(scan_results, st) ==
    IF "ai_analysis" \notin DOMAIN scan_results
    THEN [base10 |-> 10 * st.base, short |-> FALSE,
          conf2 |-> st.conf2, rf |-> st.rf]
    ELSE LET ai_data == scan_results["ai_analysis"]
         IN  IF ~HasError(ai_data)
             THEN LET ai_threat == Get(ai_data, "ai_threat_score", 50)
                      ai_confidence == Get(ai_data, "ai_confidence", 85)
                  IN  [base10 |-> 7 * st.base + 3 * (100 - ai_threat),
                       short |-> FloatShort(st.base, ai_threat),
                       conf2 |-> (st.conf2 \div 2) + ai_confidence,
                       rf |-> IF ai_threat > 70
                              THEN Append(st.rf,
                                          "AI detected high threat level")
                              ELSE IF ai_threat < 30
                                   THEN Append(st.rf,
                                          "AI confirms low threat level")
                                   ELSE st.rf]
             ELSE [base10 |-> 10 * st.base, short |-> FALSE,
                   conf2 |-> st.conf2 - 20, rf |-> st.rf]

\* Mutant of HeadersImpact: a failed header check costs 15.
HeadersImpactFailureCostly(scan_results, st) ==
    IF "security_headers" \notin DOMAIN scan_results THEN st
    ELSE IF HasError(scan_results["security_headers"])
         THEN [st EXCEPT !.base10 = st.base10 - 150]
         ELSE [st EXCEPT
                 !.base10 = st.base10
                     + 2 * (Get(scan_results["security_headers"],
                                "security_score", 50) - 50)]

\* Security-headers step.  A double that stays below 64 keeps the deficit
\* of FloatShort; from 64 on the coarser spacing rounds it away.
HeadersImpact(scan_results, st) ==
    IF "security_headers" \notin DOMAIN scan_results THEN st
    ELSE LET headers_data == scan_results["security_headers"]
         IN  IF ~HasError(headers_data)
             THEN LET headers_score == Get(headers_data, "security_score", 50)
                      b == st.base10 + 2 * (headers_score - 50)
                  IN  [st EXCEPT
                         !.base10 = b,
                         !.short = st.short /\ b <= 640,
                         !.rf = IF headers_score < 60
                                THEN Append(st.rf,
                                   "Poor security headers configuration")
                                ELSE st.rf]
             ELSE [st EXCEPT !.base10 = st.base10 - 50]

\* Content step.
ContentImpact(scan_results, st) ==
    IF "content_lite" \notin DOMAIN scan_results THEN st
    ELSE LET content_data == scan_results["content_lite"]
         IN  IF ~HasError(content_data)
             THEN LET kw == Get(content_data, "suspicious_keywords_count", 0) > 3
                      ifr == Get(content_data, "has_iframes", FALSE)
                      b1 == IF kw THEN st.base10 - 150 ELSE st.base10
                      rf1 == IF kw
                             THEN Append(st.rf,
                                   "Multiple suspicious keywords detected")
                             ELSE st.rf
                  IN  [st EXCEPT
                         !.base10 = IF ifr THEN b1 - 50 ELSE b1,
                         !.rf = IF ifr
                                THEN Append(rf1,
                                   "Contains iframes (potential risk)")
                                ELSE rf1]
             ELSE st

\* Mutant of DeepImpact: the bonus is given for any deep_scan entry.
DeepImpactAnyEntry(scan_results, st) ==
    IF "deep_scan" \in DOMAIN scan_results
    THEN [st EXCEPT !.conf2 = st.conf2 + 20]
    ELSE st

\* Deep-scan bonus.
DeepImpact(scan_results, st) ==
    IF "deep_scan" \notin DOMAIN scan_results THEN st
    ELSE IF Get(scan_results["deep_scan"], "deep_scan_completed", FALSE)
         THEN [st EXCEPT !.conf2 = st.conf2 + 20]
         ELSE st

\* int(base_score) of the double the steps above describe.
IntOfBase(st) ==
    IF st.short /\ st.base10 % 10 = 0 /\ st.base10 > 0
    THEN (st.base10 \div 10) - 1
    ELSE TruncDiv(st.base10, 10)

\* Mutant of NormalizeScore: no clamping.
NormalizeScoreUnclamped(raw) == raw

NormalizeScore(raw) == Max(0, Min(100, raw))

NormalizeConfidence(raw) == Max(60, Min(99, raw))

_calculate_trust_rating(score, confidence) ==
    LET trust10 == 7 * score + 3 * confidence
    IN  IF trust10 >= 950 THEN "FORTRESS"
        ELSE IF trust10 >= 850 THEN "SECURE"
        ELSE IF trust10 >= 700 THEN "CAUTION"
        ELSE IF trust10 >= 500 THEN "RISK"
        ELSE "DANGER"

\* base_score and confidence before the final normalization.
ScoreSteps(scan_results) ==
    DeepImpact(scan_results,
      ContentImpact(scan_results,
        HeadersImpact(scan_results,
          AiImpact(scan_results, HttpImpact(scan_results)))))

_calculate_composite_score(scan_results) ==
    LET st == ScoreSteps(scan_results)
        final_score == NormalizeScore(IntOfBase(st))
        final_confidence == NormalizeConfidence(TruncDiv(st.conf2, 2))
    IN  [final_score |-> final_score,
         confidence |-> final_confidence,
         trust_rating |-> _calculate_trust_rating(final_score,
                                                  final_confidence),
         risk_factors |-> st.rf,
         calculation_method |-> "weighted_composite_scoring"]

\* --------------------------------------------- report compilation helpers
\* Number of keys of d whose value satisfies "error" not in v.
SuccessfulCount(d) == Cardinality({k \in DOMAIN d : ~HasError(d[k])})

_get_quality_grade(succ, total) ==
    \* quality = succ / total * 100, 0 when total = 0
    IF total = 0 THEN "Poor"
    ELSE IF 100 * succ >= 95 * total THEN "Excellent"
    ELSE IF 100 * succ >= 85 * total THEN "Very Good"
    ELSE IF 100 * succ >= 75 * total THEN "Good"
    ELSE IF 100 * succ >= 65 * total THEN "Fair"
    ELSE "Poor"

\* The "performance" dict; cache_hit and total_time_ms are added by
\* ultra_fast_scan and are absent here.
_calculate_performance_metrics(scan_results) ==
    LET successful_scans == SuccessfulCount(scan_results)
        total_scans == Cardinality(DOMAIN scan_results)
    IN  [successful_scans |-> successful_scans,
         total_scans |-> total_scans,
         scan_quality |-> _get_quality_grade(successful_scans, total_scans),
         caching_enabled |-> TRUE]

_get_risk_level(score) ==
    IF score >= 90 THEN "very_low"
    ELSE IF score >= 75 THEN "low"
    ELSE IF score >= 60 THEN "medium"
    ELSE IF score >= 40 THEN "high"
    ELSE "critical"

_get_security_grade(score) ==
    IF score >= 95 THEN "A+"
    ELSE IF score >= 90 THEN "A"
    ELSE IF score >= 85 THEN "A-"
    ELSE IF score >= 80 THEN "B+"
    ELSE IF score >= 75 THEN "B"
    ELSE IF score >= 70 THEN "B-"
    ELSE IF score >= 65 THEN "C+"
    ELSE IF score >= 60 THEN "C"
    ELSE IF score >= 50 THEN "D"
    ELSE "F"

Take(seq, n) == SubSeq(seq, 1, Min(n, Len(seq)))

_generate_smart_recommendations(scan_results, composite_score) ==
    LET final_score == composite_score.final_score
        by_score ==
            IF final_score >= 90
            THEN <<"Excellent security posture detected",
                   "Maintain current security practices",
                   "Schedule periodic security reviews">>
            ELSE IF final_score >= 75
            THEN <<"Good security foundation",
                   "Consider security header improvements",
                   "Monitor for security updates">>
            ELSE IF final_score >= 60
            THEN <<"Security improvements needed",
                   "Implement additional security measures",
                   "Conduct detailed security audit">>
            ELSE <<"Critical security issues detected",
                   "Immediate security remediation required",
                   "Consider professional security assessment">>
        hd == Get(scan_results, "security_headers", [error |-> "absent"])
        weak == ~HasError(hd) /\ Get(hd, "security_score", 100) < 80
        hsts == IF weak /\ ~Get(hd, "has_hsts", FALSE)
                THEN <<"Enable HTTPS Strict Transport Security (HSTS)">>
                ELSE <<>>
        csp == IF weak /\ ~Get(hd, "has_csp", FALSE)
               THEN <<"Implement Content Security Policy (CSP)">>
               ELSE <<>>
        ad == Get(scan_results, "ai_analysis", [error |-> "absent"])
        ai == IF ~HasError(ad) /\ Get(ad, "ai_threat_score", 0) > 60
              THEN <<"AI detected potential security concerns">>
              ELSE <<>>
    IN  Take(by_score \o hsts \o csp \o ai, 6)

\* The report dict, created at clock reading t.
_compile_optimized_results(url, scan_results, t) ==
    LET composite_score == _calculate_composite_score(scan_results)
        performance_metrics == _calculate_performance_metrics(scan_results)
    IN  [url |-> url,
         timestamp |-> t,
         composite_score |-> composite_score,
         scan_results |-> scan_results,
         performance |-> performance_metrics,
         recommendations |->
             _generate_smart_recommendations(scan_results, composite_score),
         summary |->
             [overall_risk_level |->
                  _get_risk_level(composite_score.final_score),
              security_grade |->
                  _get_security_grade(composite_score.final_score),
              trust_rating |-> composite_score.trust_rating,
              scan_quality |-> performance_metrics.scan_quality]]

\* ------------------------------------------------------------- the state
VARIABLES
    now,          \* time.time(), in seconds
    ticks,        \* number of clock advances so far
    scan_cache,   \* self.scan_cache: entries in dict (insertion) order
    heap,         \* the report dicts, by object identity
    pc,           \* where each ultra_fast_scan invocation stands
    req,          \* its arguments: [url, options]
    gathered,     \* what the gathers returned, by adapter name
    results,      \* the local `results` of _parallel_optimized_scan
    start_time,   \* the local start_time of ultra_fast_scan
    ret,          \* what the invocation handed to its caller
    sr_in,        \* argument of a stand-alone _calculate_composite_score call
    sr_out,       \* its return value
    request,      \* the API request each invocation serves
    ai_results,   \* what the configured AI providers answered, in task order
    ai_decision,  \* the return value of multi_ai_analysis
    vt_now,         \* the clock read by the VirusTotal client, in seconds
    api_key,        \* whether settings.VIRUSTOTAL_API_KEY is set
    client,         \* whether VirusTotalAPI.client has been created
    health_cache,   \* VirusTotalAPI.health_cache
    request_times,  \* VirusTotalAPI.request_times
    vt_pc,          \* where each caller of VirusTotalAPI is suspended
    vt_out,         \* what the last finished VirusTotalAPI call returned
    network,        \* the requests sent to VirusTotal so far
    outcomes,       \* the outcomes reported to _update_health_from_scan
    permits,        \* the passes through _rate_limit_check, as they ended
    started,        \* the VirusTotalAPI calls made so far
    requests,       \* RateLimiter.requests
    daily_requests, \* RateLimiter.daily_requests
    daily_reset,    \* RateLimiter.daily_reset
    rl_pc,          \* where each caller of RateLimiter.acquire is suspended
    rl_permits,     \* the acquire() calls that returned, as they ended
    rl_started,     \* the acquire() calls made so far
    urls,           \* batch_scan_urls: its argument urls
    max_concurrent, \* batch_scan_urls: its argument max_concurrent
    semaphore,      \* the value of asyncio.Semaphore(max_concurrent)
    tasks,          \* where each scan_with_semaphore(url) stands
    batch_result,   \* what batch_scan_urls returned
    db_connected,   \* db_manager.connected
    response,       \* the HTTP response to each /ultra-scan request
    batch_response, \* the HTTP response to the /batch-scan request
    adapters,       \* the adapter coroutines of scan 1: position and output
    arrival,        \* the adapters of scan 1 in the order they completed
    threat_cache,   \* ThreatIntelligence.threat_cache, in insertion order
    ti_call,        \* the comprehensive_threat_check call that is suspended
    ti_results,     \* what the six threat checks of the last call returned
    ti_report,      \* the threat report the last call returned
    cs_results,     \* the nine scan results handed to _compile_scan_results
    cs_report,      \* what _compile_scan_results returned for them
    analysis_cache, \* EnhancedAIAnalyzer.analysis_cache, in insertion order
    ai_calls,       \* the multi_ai_analysis calls made, with their answers
    analytics_fallback, \* main.analytics_fallback
    analytics_raised    \* update_analytics calls that raised, each by its error

scanVars ==
    <<now, ticks, scan_cache, heap, pc, req, gathered, results, start_time,
      ret>>
scoreVars == <<sr_in, sr_out>>
apiVars == <<request>>
aiVars == <<ai_results, ai_decision>>
vtVars ==
    <<vt_now, api_key, client, health_cache, request_times, vt_pc, vt_out,
      network, outcomes, permits, started>>
rlVars ==
    <<requests, daily_requests, daily_reset, rl_pc, rl_permits, rl_started>>
batchVars == <<urls, max_concurrent, semaphore, tasks, batch_result>>
dbVars == <<db_connected, response, batch_response>>
tierVars == <<adapters, arrival>>
tiVars == <<threat_cache, ti_call, ti_results, ti_report>>
csVars == <<cs_results, cs_report>>
aiCacheVars == <<analysis_cache, ai_calls>>
analyticsVars == <<analytics_fallback, analytics_raised>>
otherVars == <<tiVars, csVars, aiCacheVars, analyticsVars>>
vars ==
    <<now, ticks, scan_cache, heap, pc, req, gathered, results, start_time,
      ret, sr_in, sr_out, request, ai_results, ai_decision, vt_now, api_key,
      client, health_cache, request_times, vt_pc, vt_out, network, outcomes,
      permits, started, requests, daily_requests, daily_reset, rl_pc,
      rl_permits, rl_started, urls, max_concurrent, semaphore, tasks,
      batch_result, db_connected, response, batch_response, adapters,
      arrival, threat_cache, ti_call, ti_results, ti_report, cs_results,
      cs_report, analysis_cache, ai_calls, analytics_fallback,
      analytics_raised>>

\* What an orchestration step leaves alone besides the API requests.
aside == <<scoreVars, aiVars, vtVars, rlVars, batchVars, dbVars, tierVars, otherVars>>

ScanIds == 1 .. MaxScans

Urls == {"https://a.example"}

\* The options dict /ultra-scan builds from UltraAnalysisRequest.
UltraOptions ==
    {[deep_scan |-> d, ai_ensemble |-> TRUE, threat_intel |-> TRUE,
      cache_enabled |-> c] : d \in BOOLEAN, c \in BOOLEAN}

TickSteps == {1, cache_ttl}

EmptyDict == [k \in {} |-> k]

NoReq == [url |-> "", options |-> EmptyDict]
NoRet == [kind |-> "none"]
None == 0        \* no object: object identities are the ScanIds

\* dict.update(): the entries of upd replace or extend those of d.
Update(d, upd) ==
    [k \in DOMAIN d \cup DOMAIN upd |->
        IF k \in DOMAIN upd THEN upd[k] ELSE d[k]]

\* ------------------------------------------------------------ scan cache
\* md5 of "url:json(options, sort_keys)" is modelled by the pair itself.
_generate_cache_key(url, options) == <<url, options>>

CacheKeys(cache) == {cache[i].key : i \in DOMAIN cache}

CacheIndex(cache, key) == CHOOSE i \in DOMAIN cache : cache[i].key = key

CacheEntry(cache, key) == cache[CacheIndex(cache, key)]

CacheDelete(cache, key) == SelectSeq(cache, LAMBDA e : e.key # key)

\* Mutant of Expired: an entry aged exactly cache_ttl is stale too.
ExpiredInclusive(entry, t) == t - entry.timestamp >= cache_ttl

\* The entry is stale when time.time() - cached["timestamp"] > cache_ttl.
Expired(entry, t) == t - entry.timestamp > cache_ttl

\* Mutant of _get_cached_result: a hit restarts the entry's lifetime.
GetCachedRefreshes(cache, cache_key, t) ==
    IF cache_key \notin CacheKeys(cache)
    THEN [result |-> None, cache |-> cache]
    ELSE LET cached == CacheEntry(cache, cache_key)
         IN  IF Expired(cached, t)
             THEN [result |-> None, cache |-> CacheDelete(cache, cache_key)]
             ELSE [result |-> cached.result,
                   cache |-> [cache EXCEPT ![CacheIndex(cache, cache_key)]
                                              .timestamp = t]]

\* _get_cached_result: [result (None or the cached object), cache (after)]
_get_cached_result(cache, cache_key, t) ==
    IF cache_key \notin CacheKeys(cache)
    THEN [result |-> None, cache |-> cache]
    ELSE LET cached == CacheEntry(cache, cache_key)
         IN  IF Expired(cached, t)
             THEN [result |-> None, cache |-> CacheDelete(cache, cache_key)]
             ELSE [result |-> cached.result, cache |-> cache]

\* sorted(self.scan_cache.items(), key=lambda x: x[1]["timestamp"]): the
\* entries by ascending timestamp, entries of one timestamp staying in
\* insertion order.
OlderThan(a, b) == a.timestamp < b.timestamp

sorted_cache(cache) == SortSeq(cache, OlderThan)

\* Mutant of EvictOldest: the EvictBatch entries inserted first are
\* dropped, whatever their timestamps.
EvictFirstInserted(cache) ==
    IF Len(cache) >= max_cache_size
    THEN SubSeq(cache, EvictBatch + 1, Len(cache))
    ELSE cache

\* The size management of _cache_result: drop the EvictBatch oldest.
EvictOldest(cache) ==
    IF Len(cache) >= max_cache_size
    THEN LET oldest == SubSeq(sorted_cache(cache), 1, EvictBatch)
             old == {oldest[i].key : i \in DOMAIN oldest}
         IN  SelectSeq(cache, LAMBDA e : e.key \notin old)
    ELSE cache

\* Mutant of _cache_result: the size management runs, nothing is stored.
CacheResultDropped(cache, cache_key, oid, t) == EvictOldest(cache)

\* Mutant of _cache_result: a key the dict already holds keeps its entry.
CacheResultFirstWins(cache, cache_key, oid, t) ==
    LET kept == EvictOldest(cache)
    IN  IF cache_key \in CacheKeys(kept)
        THEN kept
        ELSE Append(kept, [key |-> cache_key, result |-> oid,
                           timestamp |-> t])

\* _cache_result: the cache after storing object oid under cache_key.
\* Assigning to a key the dict already holds keeps the key's position.
_cache_result(cache, cache_key, oid, t) ==
    LET kept == EvictOldest(cache)
        entry == [key |-> cache_key, result |-> oid, timestamp |-> t]
    IN  IF cache_key \in CacheKeys(kept)
        THEN [kept EXCEPT ![CacheIndex(kept, cache_key)] = entry]
        ELSE Append(kept, entry)

\* ------------------------------------------------------ ultra_fast_scan
Key(s) == _generate_cache_key(req[s].url, req[s].options)

\* int((time.time() - start_time) * 1000)
ElapsedMs(t0, t) == (t - t0) * 1000

\* result["performance"]["cache_hit"] = ...; ["total_time_ms"] = ...
MarkPerformance(obj, hit, ms) ==
    [obj EXCEPT !.performance =
        Update(obj.performance, [cache_hit |-> hit, total_time_ms |-> ms])]

HeapPut(h, oid, obj) ==
    [o \in DOMAIN h \cup {oid} |-> IF o = oid THEN obj ELSE h[o]]

Returned(oid, obj) == [kind |-> "verdict", ref |-> oid, value |-> obj]

Raised(exc) == [kind |-> "error", error |-> exc]

\* Whether the lookup result takes the `if cached_result:` branch.
IsHit(cached_result) == cached_result # None

\* Whether _parallel_optimized_scan builds the Tier-3 task list.
WantsDeep(options) == Get(options, "deep_scan", TRUE)

\* Entry of ultra_fast_scan up to its first await: the cache lookup, and
\* either the return of the cached object or the start of Tier 1.
CallScan(s, url, options) ==
    /\ pc[s] = "idle"
    /\ \A t \in ScanIds : t < s => pc[t] # "idle"
    /\ LET got == _get_cached_result(scan_cache,
                                      _generate_cache_key(url, options), now)
       IN  /\ req' = [req EXCEPT ![s] = [url |-> url, options |-> options]]
           /\ start_time' = [start_time EXCEPT ![s] = now]
           /\ scan_cache' = got.cache
           /\ IF IsHit(got.result)
              THEN LET obj == MarkPerformance(heap[got.result], TRUE,
                                              ElapsedMs(now, now))
                   IN  /\ heap' = HeapPut(heap, got.result, obj)
                       /\ ret' = [ret EXCEPT ![s] = Returned(got.result, obj)]
                       /\ pc' = [pc EXCEPT ![s] = "done"]
              ELSE /\ pc' = [pc EXCEPT ![s] = "tier1"]
                   /\ UNCHANGED <<heap, ret>>
    /\ UNCHANGED <<now, ticks, gathered, results>>

\* _compile_optimized_results, _cache_result and the return of the miss
\* path of ultra_fast_scan, which run without a suspension point.
Finish(s, res) ==
    LET obj == _compile_optimized_results(req[s].url, res, now)
        marked == MarkPerformance(obj, FALSE, ElapsedMs(start_time[s], now))
    IN  /\ results' = [results EXCEPT ![s] = res]
        /\ scan_cache' = _cache_result(scan_cache, Key(s), s, now)
        /\ heap' = HeapPut(heap, s, marked)
        /\ ret' = [ret EXCEPT ![s] = Returned(s, marked)]
        /\ pc' = [pc EXCEPT ![s] = "done"]

\* Mutant of ProcessTier1: one failing adapter fails the whole tier.
ProcessTier1AllOrNothing(r_http, r_ai) ==
    IF HasError(r_http) \/ HasError(r_ai)
    THEN [http_quick |-> Failed(r_http), ai_analysis |-> Failed(r_ai)]
    ELSE [http_quick |-> r_http, ai_analysis |-> r_ai]

\* _process_priority_results(high_results, ["http_quick", "ai_analysis"])
ProcessTier1(r_http, r_ai) ==
    [http_quick |-> ProcessOne(r_http), ai_analysis |-> ProcessOne(r_ai)]

\* _process_priority_results(medium_results, [...])
ProcessTier2(r_headers, r_content) ==
    [security_headers |-> ProcessOne(r_headers),
     content_lite |-> ProcessOne(r_content)]

\* _process_priority_results(deep_results, ["deep_scan"])
ProcessTier3(r_deep) == [deep_scan |-> ProcessOne(r_deep)]

\* The Tier-1 gather returns; the Tier-2 wait_for begins.
Tier1Complete(s, r_http, r_ai) ==
    /\ pc[s] = "tier1"
    /\ gathered' = [gathered EXCEPT
                      ![s] = [http_quick |-> r_http, ai_analysis |-> r_ai]]
    /\ results' = [results EXCEPT
                     ![s] = Update(results[s], ProcessTier1(r_http, r_ai))]
    /\ pc' = [pc EXCEPT ![s] = "tier2"]
    /\ UNCHANGED <<now, ticks, scan_cache, heap, req, start_time, ret>>

\* The Tier-2 gather returns within its 3 s; Tier 3 begins, or the scan
\* compiles, caches and returns.
Tier2Complete(s, r_headers, r_content) ==
    /\ pc[s] = "tier2"
    /\ gathered' = [gathered EXCEPT
                      ![s] = Update(gathered[s],
                                    [security_headers |-> r_headers,
                                     content_lite |-> r_content])]
    /\ LET res == Update(results[s], ProcessTier2(r_headers, r_content))
       IN  IF WantsDeep(req[s].options)
           THEN /\ results' = [results EXCEPT ![s] = res]
                /\ pc' = [pc EXCEPT ![s] = "tier3"]
                /\ UNCHANGED <<scan_cache, heap, ret>>
           ELSE Finish(s, res)
    /\ UNCHANGED <<now, ticks, req, start_time>>

\* The 3 s of the Tier-2 wait_for elapse with an adapter unfinished:
\* asyncio.TimeoutError leaves _parallel_optimized_scan and ultra_fast_scan.
Tier2Timeout(s) ==
    /\ pc[s] = "tier2"
    /\ pc' = [pc EXCEPT ![s] = "raised"]
    /\ ret' = [ret EXCEPT ![s] = Raised("TimeoutError")]
    /\ UNCHANGED <<now, ticks, scan_cache, heap, req, gathered, results,
                   start_time>>

\* The Tier-3 gather returns within its 5 s.
Tier3Complete(s, r_deep) ==
    /\ pc[s] = "tier3"
    /\ gathered' = [gathered EXCEPT
                      ![s] = Update(gathered[s], [deep_scan |-> r_deep])]
    /\ Finish(s, Update(results[s], ProcessTier3(r_deep)))
    /\ UNCHANGED <<now, ticks, req, start_time>>

\* The 5 s of the Tier-3 wait_for elapse: the except branch records it.
Tier3Timeout(s) ==
    /\ pc[s] = "tier3"
    /\ Finish(s, Update(results[s], [deep_scan |-> DeepTimeout]))
    /\ UNCHANGED <<now, ticks, req, gathered, start_time>>

\* The clock advances.
Tick(d) ==
    /\ ticks < MaxTicks
    /\ ticks' = ticks + 1
    /\ now' = now + d
    /\ UNCHANGED <<scan_cache, heap, pc, req, gathered, results, start_time,
                   ret>>

\* ---------------------------------------------------- the API endpoints
NoRequest == [endpoint |-> "none"]

\* POST /ultra-scan: ultra_comprehensive_scan passes the request's four
\* switches as the options of ultra_fast_scan.
UltraScan(s, url, options) ==
    /\ request' = [request EXCEPT
                     ![s] = [endpoint |-> "ultra-scan",
                             deep_scan |-> options.deep_scan]]
    /\ CallScan(s, url, options)

\* POST /batch-scan, one URL of the batch: batch_url_scan passes urls and
\* max_concurrent to batch_scan_urls, whose scan_with_semaphore calls
\* ultra_fast_scan(url); scan_options is None and becomes {}.
BatchItem(s, url, deep_scan) ==
    /\ request' = [request EXCEPT
                     ![s] = [endpoint |-> "batch-scan",
                             deep_scan |-> deep_scan]]
    /\ CallScan(s, url, EmptyDict)

\* ------------------------------------------------- EnhancedAIAnalyzer
\* The providers in the order multi_ai_analysis builds its tasks, and their
\* weights 0.5, 0.3, 0.2 in tenths.
Providers == <<"groq", "anthropic", "openai">>
Weight10(provider) ==
    CASE provider = "groq" -> 5
      [] provider = "anthropic" -> 3
      [] provider = "openai" -> 2

\* What a provider's analysis returns: the parsed answer with "provider"
\* added (an answer may lack threat_score and confidence), or the record of
\* its except branch.
ProviderThreats == {0, 31, 40, 80, 100}
ProviderConfidences == {75, 90, 99}
ProviderOk(provider, threat, conf) ==
    [provider |-> provider, threat_score |-> threat, confidence |-> conf]
ProviderBare(provider) == [provider |-> provider]
ProviderFail(provider) == [provider |-> provider, error |-> "APIError"]

\* _fallback_analysis
_fallback_analysis ==
    [threat_score |-> 45, confidence |-> 70,
     threats |-> <<"AI services temporarily unavailable">>,
     category |-> "unknown_requires_manual_review",
     ensemble |-> FALSE, fallback |-> TRUE]

\* valid_results: the dicts without "error", in order.
ValidResults(rs) == SelectSeq(rs, LAMBDA r : ~HasError(r))

\* sum(weight) and sum(value * weight) over the valid results, in tenths.
RECURSIVE WeightSum(_)
WeightSum(rs) ==
    IF rs = <<>> THEN 0 ELSE Weight10(Head(rs).provider) + WeightSum(Tail(rs))

RECURSIVE WeightedSum(_, _, _)
WeightedSum(rs, field, dflt) ==
    IF rs = <<>>
    THEN 0
    ELSE Get(Head(rs), field, dflt) * Weight10(Head(rs).provider)
            + WeightedSum(Tail(rs), field, dflt)

\* The double accumulated as score * weight and divided by the summed
\* weights falls just below its exact integer value for exactly these
\* valid results, written <<weight in tenths, threat_score>>, among those
\* with threat scores in ProviderThreats \cup {50}.
MeanShort(valid) ==
    [i \in DOMAIN valid |->
        <<Weight10(valid[i].provider), Get(valid[i], "threat_score", 50)>>]
    \in {<<<<3, 31>>>>,
         <<<<5, 31>>, <<3, 31>>>>,
         <<<<5, 31>>, <<3, 31>>, <<2, 31>>>>}

\* int(weighted_threat_score) after the division by total_weight.
EnsembleThreat(rs) ==
    LET valid == ValidResults(rs)
        exact == TruncDiv(WeightedSum(valid, "threat_score", 50),
                          WeightSum(valid))
    IN  IF MeanShort(valid) THEN exact - 1 ELSE exact

\* min(99, int(weighted_confidence * 1.1)); for confidences in
\* ProviderConfidences \cup {80} the double arithmetic gives the exact
\* truncation.
EnsembleConfidence(rs) ==
    LET valid == ValidResults(rs)
    IN  Min(99, TruncDiv(WeightedSum(valid, "confidence", 80) * 11,
                         WeightSum(valid) * 10))

\* _ensemble_decision
_ensemble_decision(rs) ==
    IF ValidResults(rs) = <<>>
    THEN _fallback_analysis
    ELSE [ensemble |-> TRUE,
          threat_score |-> EnsembleThreat(rs),
          confidence |-> EnsembleConfidence(rs),
          providers_used |-> Len(ValidResults(rs)),
          ensemble_method |-> "weighted_voting"]

\* multi_ai_analysis on a cache miss: no configured provider, or the
\* ensemble decision over the gathered answers.
multi_ai_analysis(rs) ==
    IF rs = <<>> THEN _fallback_analysis ELSE _ensemble_decision(rs)

\* What _ai_analysis_optimized returns for an answer of multi_ai_analysis.
_ai_analysis_optimized(ai_result) ==
    AiOk(Get(ai_result, "threat_score", 50), Get(ai_result, "confidence", 85))

\* ------------------------------------------------------- VirusTotalAPI
VtCallers == 1 .. MaxCallers

NoTime == -1      \* None where a timestamp is expected
NoMsg == ""       \* None where an error message is expected

\* del d[k], for a key the dict may not hold.
Without(d, k) == [n \in DOMAIN d \ {k} |-> d[n]]

\* health_cache as __init__ leaves it.
InitialHealth ==
    [status |-> "unknown", last_check |-> NoTime,
     last_successful_scan |-> NoTime, consecutive_failures |-> 0,
     total_scans |-> 0, successful_scans |-> 0]

\* Mutant of _update_health_from_scan: a success restores the status but
\* keeps the failure count.
UpdateHealthKeepsCount(h, success, error_msg, t) ==
    LET h1 == [h EXCEPT !.last_check = t, !.total_scans = @ + 1]
    IN  IF success
        THEN [h1 EXCEPT !.status = "connected", !.successful_scans = @ + 1]
        ELSE [h1 EXCEPT !.consecutive_failures = @ + 1,
                        !.status = IF h1.consecutive_failures + 1
                                        >= ErrorThreshold
                                   THEN "error" ELSE "degraded"]

\* _update_health_from_scan(success, error_msg) at time t.
_update_health_from_scan(h, success, error_msg, t) ==
    LET h1 == [h EXCEPT !.last_check = t, !.total_scans = @ + 1]
    IN  IF success
        THEN Without([h1 EXCEPT !.status = "connected",
                                !.last_successful_scan = t,
                                !.successful_scans = @ + 1,
                                !.consecutive_failures = 0],
                     "error")
        ELSE LET n == h1.consecutive_failures + 1
                 h2 == [h1 EXCEPT
                          !.consecutive_failures = n,
                          !.status = IF n >= ErrorThreshold
                                     THEN "error" ELSE "degraded"]
             IN  IF error_msg # NoMsg
                 THEN Update(h2, [error |-> error_msg])
                 ELSE h2

\* _create_fallback_response(scan_type, metadata)
_create_fallback_response(scan_type, metadata) ==
    [fallback |-> TRUE, scan_type |-> scan_type, status |-> "degraded",
     metadata |-> metadata, risk_score |-> 0, confidence |-> "low"]

\* What the three scan methods return on HTTP 200.
Submitted == [status |-> "submitted", fallback |-> FALSE]
Report(scan_type) ==
    [scan_type |-> scan_type, fallback |-> FALSE, confidence |-> "high"]

\* max(0, self.rate_limit - len(self.request_times))
RemainingRequests(times) == Max(0, rate_limit - Len(times))

\* get_api_quota
get_api_quota(h, times) ==
    [status |-> h.status, remaining_requests |-> RemainingRequests(times),
     rate_limit |-> rate_limit, total_scans |-> h.total_scans,
     successful_scans |-> h.successful_scans,
     fallback |-> h.status # "connected"]

\* health_check at time t; success_rate is kept as the pair it is the
\* quotient of.
health_check(h, times, t) ==
    LET is_stale == h.last_check # NoTime /\ t - h.last_check > StaleAfter
        message ==
            CASE h.status = "not_configured" ->
                    "VirusTotal API key not configured"
              [] h.status = "connected" ->
                    "VirusTotal operational (verified via real scans)"
              [] h.status = "degraded" ->
                    "VirusTotal experiencing issues (degraded performance)"
              [] h.status = "error" ->
                    "VirusTotal unavailable (multiple consecutive failures)"
              [] OTHER ->
                    "VirusTotal status unknown (no scans performed yet)"
        health_data ==
            [status |-> h.status, last_check |-> h.last_check,
             last_successful_scan |-> h.last_successful_scan,
             total_scans |-> h.total_scans,
             successful_scans |-> h.successful_scans,
             success_rate |-> IF h.total_scans > 0
                              THEN <<h.successful_scans, h.total_scans>>
                              ELSE <<0, 1>>,
             consecutive_failures |-> h.consecutive_failures,
             rate_limit_remaining |-> RemainingRequests(times),
             is_stale |-> is_stale, message |-> message]
    IN  IF HasError(h)
        THEN Update(health_data, [error |-> h.error])
        ELSE health_data

\* ---- _rate_limit_check
\* The timestamps younger than the window.
Pruned(times, t) == SelectSeq(times, LAMBDA x : t - x < RateWindow)

\* min(self.request_times)
Oldest(times) ==
    CHOOSE m \in {times[i] : i \in DOMAIN times} :
        \A i \in DOMAIN times : m <= times[i]

\* 60 - (now - oldest_request) + 1
WaitTime(times, t) == RateWindow - (t - Oldest(times)) + 1

\* Whether _rate_limit_check, entered at t, goes to sleep.
MustWait(times, t) ==
    /\ Len(Pruned(times, t)) >= rate_limit
    /\ WaitTime(Pruned(times, t), t) > 0

VtIdlePc == [at |-> "idle"]

\* A pass through _rate_limit_check as it ended: entered at `entered`
\* with `held` timestamps in the window, the oldest being `oldest`, and
\* returned at `left`.
Permit(c, entered, left, kept) ==
    [caller |-> c, entered |-> entered, left |-> left, held |-> Len(kept),
     oldest |-> IF kept = <<>> THEN NoTime ELSE Oldest(kept)]

\* What follows the return of _rate_limit_check in method op: the request
\* is sent (a bare _rate_limit_check call just returns).
AfterRateLimit(c, op, nested) ==
    IF op = "_rate_limit_check"
    THEN /\ vt_pc' = [vt_pc EXCEPT ![c] = VtIdlePc]
         /\ UNCHANGED network
    ELSE /\ vt_pc' = [vt_pc EXCEPT
                        ![c] = [at |-> "request", op |-> op,
                                nested |-> nested]]
         /\ network' = network + 1

\* _rate_limit_check up to its await: prune, then sleep, or record the
\* request and return.
EnterRateLimit(c, op, nested) ==
    LET kept == Pruned(request_times, vt_now)
    IN  IF MustWait(request_times, vt_now)
        THEN /\ request_times' = kept
             /\ vt_pc' = [vt_pc EXCEPT
                            ![c] = [at |-> "sleeping", op |-> op,
                                    nested |-> nested, now |-> vt_now,
                                    due |-> vt_now + WaitTime(kept, vt_now),
                                    kept |-> kept]]
             /\ UNCHANGED <<permits, network>>
        ELSE /\ request_times' = Append(kept, vt_now)
             /\ permits' = Append(permits, Permit(c, vt_now, vt_now, kept))
             /\ AfterRateLimit(c, op, nested)

\* asyncio.sleep(wait_time) returns, no earlier than due: the request is
\* recorded under the time read on entry and _rate_limit_check returns.
RateWake(c) ==
    /\ vt_pc[c].at = "sleeping"
    /\ vt_now' = Max(vt_now, vt_pc[c].due)
    /\ request_times' = Append(request_times, vt_pc[c].now)
    /\ permits' = Append(permits,
                         Permit(c, vt_pc[c].now, Max(vt_now, vt_pc[c].due),
                                vt_pc[c].kept))
    /\ AfterRateLimit(c, vt_pc[c].op, vt_pc[c].nested)
    /\ UNCHANGED <<api_key, client, health_cache, vt_out, outcomes, started>>

\* ---- scan_url, get_url_report, scan_file_hash
VtMethods == {"scan_url", "get_url_report", "scan_file_hash"}

\* What the request ends with: an HTTP status, or an exception.
VtOutcomes == {"200", "404", "500", "timeout"}

\* The `finally` of a method: the outcome goes to the health record.
ReportOutcome(success, error_msg) ==
    /\ health_cache' = _update_health_from_scan(health_cache, success,
                                                error_msg, vt_now)
    /\ outcomes' = Append(outcomes, success)

\* A method is called: without a client it returns the fallback response
\* and its `finally` runs; with one it enters _rate_limit_check.
VtCall(c, op) ==
    /\ vt_pc[c].at = "idle"
    /\ started < MaxVtCalls
    /\ started' = started + 1
    /\ IF ~client
       THEN /\ vt_out' = _create_fallback_response(
                             op, [error |-> "Client not initialized"])
            /\ ReportOutcome(FALSE, "Client not initialized")
            /\ UNCHANGED <<request_times, vt_pc, network, permits>>
       ELSE /\ EnterRateLimit(c, op, FALSE)
            /\ UNCHANGED <<vt_out, health_cache, outcomes>>
    /\ UNCHANGED <<vt_now, api_key, client>>

\* Whether the method counts the outcome as a success.
ScanSuccess(op, outcome) ==
    \/ outcome = "200"
    \/ op = "scan_file_hash" /\ outcome = "404"

\* error_msg as the method sets it.
ErrorMsg(op, outcome) ==
    IF ScanSuccess(op, outcome) THEN NoMsg
    ELSE CASE outcome = "timeout" -> "timeout"
           [] outcome = "404" -> "HTTP 404"
           [] outcome = "500" -> "HTTP 500"

\* What get_url_report returns after submitting an unknown URL.
NotFound == _create_fallback_response("url_report", [status |-> "not_found"])

\* The request of a method ends: its return value and its `finally`.
\* get_url_report on 404 awaits scan_url, whose `finally` reports, and
\* then reports nothing itself.
VtRespond(c, outcome) ==
    /\ vt_pc[c].at = "request"
    /\ LET op == vt_pc[c].op
       IN  IF op = "get_url_report" /\ outcome = "404"
           THEN /\ EnterRateLimit(c, "scan_url", TRUE)
                /\ UNCHANGED <<vt_out, health_cache, outcomes>>
           ELSE /\ ReportOutcome(ScanSuccess(op, outcome),
                                  ErrorMsg(op, outcome))
                /\ vt_out' =
                      IF vt_pc[c].nested THEN NotFound
                      ELSE IF ~ScanSuccess(op, outcome)
                      THEN _create_fallback_response(
                              op, [error |-> ErrorMsg(op, outcome)])
                      ELSE IF op = "scan_url" THEN Submitted
                      ELSE IF outcome = "404"
                      THEN _create_fallback_response(
                              op, [status |-> "not_found"])
                      ELSE Report(op)
                /\ vt_pc' = [vt_pc EXCEPT ![c] = VtIdlePc]
                /\ UNCHANGED <<request_times, network, permits>>
    /\ UNCHANGED <<vt_now, api_key, client, started>>

\* initialize(): without a key the status becomes not_configured; with
\* one the client is created and the one-time connection test decides
\* between connected and init_failed; an exception leaves status error.
InitOutcomes == {"ok", "failed", "raised"}

Initialize(outcome) ==
    /\ started < MaxVtCalls
    /\ started' = started + 1
    /\ IF ~api_key
       THEN /\ health_cache' =
                  [health_cache EXCEPT !.status = "not_configured"]
            /\ vt_out' = [initialized |-> FALSE]
            /\ UNCHANGED <<client, network>>
       ELSE IF outcome = "raised"
       THEN /\ health_cache' =
                  Update([health_cache EXCEPT !.status = "error"],
                         [error |-> "raised"])
            /\ vt_out' = [initialized |-> FALSE]
            /\ UNCHANGED <<client, network>>
       ELSE /\ client' = TRUE
            /\ network' = network + 1
            /\ vt_out' = [initialized |-> outcome = "ok"]
            /\ health_cache' =
                  IF outcome = "ok"
                  THEN [health_cache EXCEPT !.status = "connected",
                                            !.last_check = vt_now]
                  ELSE [health_cache EXCEPT !.status = "init_failed"]
    /\ UNCHANGED <<vt_now, api_key, request_times, vt_pc, outcomes, permits>>

\* Mutant of HealthCheck: the query probes the dependency and reports the
\* probe to the health record.
HealthCheckProbes ==
    /\ vt_out' = health_check(health_cache, request_times, vt_now)
    /\ network' = network + 1
    /\ ReportOutcome(TRUE, NoMsg)
    /\ UNCHANGED <<vt_now, api_key, client, request_times, vt_pc, permits,
                   started>>

\* await vt_api.health_check()
HealthCheck ==
    /\ vt_out' = health_check(health_cache, request_times, vt_now)
    /\ UNCHANGED <<vt_now, api_key, client, health_cache, request_times,
                   vt_pc, network, outcomes, permits, started>>

\* await vt_api.get_api_quota()
GetApiQuota ==
    /\ vt_out' = get_api_quota(health_cache, request_times)
    /\ UNCHANGED <<vt_now, api_key, client, health_cache, request_times,
                   vt_pc, network, outcomes, permits, started>>

\* VirusTotalAPI as constructed, without an API key.
VtConstructed ==
    /\ vt_now = 0
    /\ client = FALSE
    /\ health_cache = InitialHealth
    /\ request_times = <<>>
    /\ vt_pc = [c \in VtCallers |-> VtIdlePc]
    /\ vt_out = EmptyDict
    /\ network = 0
    /\ outcomes = <<>>
    /\ permits = <<>>
    /\ started = 0

VtIdle == VtConstructed /\ api_key = FALSE

\* A bare call of _rate_limit_check by caller c.
RateCall(c, bound) ==
    /\ vt_pc[c].at = "idle"
    /\ started < bound
    /\ started' = started + 1
    /\ EnterRateLimit(c, "_rate_limit_check", FALSE)
    /\ UNCHANGED <<vt_now, api_key, client, health_cache, vt_out, outcomes>>

\* A second passes between two calls made in rapid succession.
VtTick ==
    /\ vt_now < MaxClock
    /\ vt_now' = vt_now + 1
    /\ UNCHANGED <<api_key, client, health_cache, request_times, vt_pc,
                   vt_out, network, outcomes, permits, started>>

\* ------------------------------------- RateLimiter (virustotal_service)
RlIdlePc == [at |-> "idle"]

\* The daily counter and its reset time as acquire() leaves them at time t.
DailyAt(t) ==
    IF t >= daily_reset
    THEN [count |-> 0, reset |-> t + DaySeconds]
    ELSE [count |-> daily_requests, reset |-> daily_reset]

\* requests after dropping those at or before the cutoff.
InWindow(times, t) == SelectSeq(times, LAMBDA x : x > t - time_window)

\* An acquire() call as it ended: entered at `entered`, when the window
\* held `held` requests with the first at `oldest`; returned at `left`.
RlPermit(c, entered, left, held, oldest, granted) ==
    [caller |-> c, entered |-> entered, left |-> left, held |-> held,
     oldest |-> oldest, granted |-> granted]

\* Mutant of AcquireAt: a full window is not waited for.
AcquireAtNoWait(c, t, first) ==
    /\ requests' = Append(InWindow(requests, t), t)
    /\ daily_requests' = DailyAt(t).count + 1
    /\ daily_reset' = DailyAt(t).reset
    /\ rl_pc' = [rl_pc EXCEPT ![c] = RlIdlePc]
    /\ rl_permits' = Append(rl_permits,
                            RlPermit(c, first.entered, t, first.held,
                                     first.oldest, TRUE))

\* Mutant of AcquireAt: a full window fails the call.
AcquireAtFailsWhenFull(c, t, first) ==
    LET granted == Len(InWindow(requests, t)) < max_requests
    IN  /\ requests' = IF granted THEN Append(InWindow(requests, t), t)
                       ELSE InWindow(requests, t)
        /\ daily_requests' = IF granted THEN DailyAt(t).count + 1
                             ELSE DailyAt(t).count
        /\ daily_reset' = DailyAt(t).reset
        /\ rl_pc' = [rl_pc EXCEPT ![c] = RlIdlePc]
        /\ rl_permits' = Append(rl_permits,
                                RlPermit(c, first.entered, t, first.held,
                                         first.oldest, granted))

\* The body of acquire() run at time t up to its await or return; `first`
\* is what the caller met on its first entry.
AcquireAt(c, t, first) ==
    LET day == DailyAt(t)
        kept == InWindow(requests, t)
    IN  /\ daily_reset' = day.reset
        /\ IF day.count >= DailyLimit
           THEN /\ daily_requests' = day.count
                /\ rl_pc' = [rl_pc EXCEPT ![c] = RlIdlePc]
                /\ rl_permits' = Append(rl_permits,
                                        RlPermit(c, first.entered, t,
                                                 first.held, first.oldest,
                                                 FALSE))
                /\ UNCHANGED requests
           ELSE IF Len(kept) >= max_requests
           THEN /\ requests' = kept
                /\ daily_requests' = day.count
                /\ rl_pc' = [rl_pc EXCEPT
                               ![c] = [at |-> "sleeping",
                                       due |-> t + (time_window
                                                     - (t - kept[1])),
                                       first |-> first]]
                /\ UNCHANGED rl_permits
           ELSE /\ requests' = Append(kept, t)
                /\ daily_requests' = day.count + 1
                /\ rl_pc' = [rl_pc EXCEPT ![c] = RlIdlePc]
                /\ rl_permits' = Append(rl_permits,
                                        RlPermit(c, first.entered, t,
                                                 first.held, first.oldest,
                                                 TRUE))

\* What a caller entering acquire() at t meets.
FirstSeen(t) ==
    [entered |-> t, held |-> Len(InWindow(requests, t)),
     oldest |-> IF InWindow(requests, t) = <<>> THEN NoTime
                ELSE InWindow(requests, t)[1]]

\* await self.rate_limiter.acquire(), one of at most `bound` calls.
AcquireCall(c, bound) ==
    /\ rl_pc[c].at = "idle"
    /\ rl_started < bound
    /\ rl_started' = rl_started + 1
    /\ AcquireAt(c, vt_now, FirstSeen(vt_now))
    /\ UNCHANGED vtVars

Acquire(c) == AcquireCall(c, MaxRateCalls)

\* Mutant of AcquireWake: after the sleep the request is recorded under
\* the time read on entry and acquire() returns True without retrying.
AcquireWakeNoRetry(c) ==
    /\ rl_pc[c].at = "sleeping"
    /\ vt_now' = Max(vt_now, rl_pc[c].due)
    /\ requests' = Append(requests, rl_pc[c].first.entered)
    /\ daily_requests' = daily_requests + 1
    /\ rl_pc' = [rl_pc EXCEPT ![c] = RlIdlePc]
    /\ rl_permits' = Append(rl_permits,
                            RlPermit(c, rl_pc[c].first.entered,
                                     Max(vt_now, rl_pc[c].due),
                                     rl_pc[c].first.held,
                                     rl_pc[c].first.oldest, TRUE))
    /\ UNCHANGED <<api_key, client, health_cache, request_times, vt_pc,
                   vt_out, network, outcomes, permits, started, rl_started,
                   daily_reset>>

\* asyncio.sleep(wait_time) returns, no earlier than due, and acquire()
\* is retried.
AcquireWake(c) ==
    /\ rl_pc[c].at = "sleeping"
    /\ vt_now' = Max(vt_now, rl_pc[c].due)
    /\ AcquireAt(c, Max(vt_now, rl_pc[c].due), rl_pc[c].first)
    /\ UNCHANGED <<api_key, client, health_cache, request_times, vt_pc,
                   vt_out, network, outcomes, permits, started, rl_started>>

\* RateLimiter as constructed at time 0.
RlIdle ==
    /\ requests = <<>>
    /\ daily_requests = 0
    /\ daily_reset = DaySeconds
    /\ rl_pc = [c \in VtCallers |-> RlIdlePc]
    /\ rl_permits = <<>>
    /\ rl_started = 0

\* ------------------------------------------------------ batch_scan_urls
NoResult == [k \in {} |-> k]

\* scan_with_semaphore(url) waiting at `async with semaphore`.
Waiting == [at |-> "waiting", result |-> "none"]

\* What a per-URL ultra_fast_scan hands to gather: its report dict, or the
\* exception it raised.
ScanOutcomes == {"dict", "exception"}

InFlight == {i \in DOMAIN tasks : tasks[i].at = "scanning"}

\* Whether scan_cache holds a report for url: an earlier scan of the batch
\* returned one (all scans of a batch share the options {}).
BatchCached(url) ==
    \E j \in DOMAIN tasks : urls[j] = url /\ tasks[j].result = "dict"

\* Mutant of EnterSemaphore: the scan starts without the semaphore.
EnterUnguarded(i) ==
    /\ i \in DOMAIN tasks
    /\ tasks[i].at = "waiting"
    /\ tasks' = [tasks EXCEPT ![i].at = "scanning"]
    /\ UNCHANGED <<urls, max_concurrent, semaphore, batch_result>>

\* async with semaphore: task i takes a free slot and calls
\* ultra_fast_scan(url), which on a cache hit returns at once, so that the
\* slot is given back without a suspension.
EnterSemaphore(i) ==
    /\ i \in DOMAIN tasks
    /\ tasks[i].at = "waiting"
    /\ semaphore > 0
    /\ IF BatchCached(urls[i])
       THEN /\ tasks' = [tasks EXCEPT
                           ![i] = [at |-> "done", result |-> "dict"]]
            /\ UNCHANGED semaphore
       ELSE /\ tasks' = [tasks EXCEPT ![i].at = "scanning"]
            /\ semaphore' = semaphore - 1
    /\ UNCHANGED <<urls, max_concurrent, batch_result>>

\* ultra_fast_scan returns or raises; leaving the `async with` block
\* releases the slot either way, and gather keeps the outcome in place i.
LeaveSemaphore(i, outcome) ==
    /\ i \in DOMAIN tasks
    /\ tasks[i].at = "scanning"
    /\ semaphore' = semaphore + 1
    /\ tasks' = [tasks EXCEPT ![i] = [at |-> "done", result |-> outcome]]
    /\ UNCHANGED <<urls, max_concurrent, batch_result>>

\* round(x, 1) of successful / len(urls) * 100, in tenths.
RoundTenths(n, d) ==
    LET q == (n * 1000) \div d
        r2 == 2 * ((n * 1000) % d)
    IN  IF r2 > d \/ (r2 = d /\ q % 2 = 1) THEN q + 1 ELSE q

\* dict(zip(urls, results)): a later pair replaces an earlier one with the
\* same key.
ZipDict(keys, values) ==
    [k \in {keys[i] : i \in DOMAIN keys} |->
        values[CHOOSE i \in DOMAIN keys :
                  /\ keys[i] = k
                  /\ \A j \in DOMAIN keys : keys[j] = k => j <= i]]

GatherResults == [i \in DOMAIN tasks |-> tasks[i].result]

\* The dict batch_scan_urls returns (its timing fields left out).
BatchReport(us, rs) ==
    LET successful == Cardinality({i \in DOMAIN rs : rs[i] = "dict"})
        failed == Cardinality({i \in DOMAIN rs : rs[i] = "exception"})
    IN  [batch_scan_results |->
            [total_urls |-> Len(us),
             successful |-> successful,
             failed |-> failed,
             success_rate |-> RoundTenths(successful, Len(us))],
         individual_results |-> ZipDict(us, rs)]

\* gather has every outcome: the report is compiled and returned.
BatchReturn ==
    /\ tasks # <<>>
    /\ \A i \in DOMAIN tasks : tasks[i].at = "done"
    /\ batch_result = NoResult
    /\ batch_result' = BatchReport(urls, GatherResults)
    /\ UNCHANGED <<urls, max_concurrent, semaphore, tasks>>

\* batch_scan_urls has not been called.
BatchIdle ==
    /\ urls = <<>>
    /\ max_concurrent = 0
    /\ semaphore = 0
    /\ tasks = <<>>
    /\ batch_result = NoResult

\* ------------------------------------------------ the persistence sink
NoResponse == [status |-> 0]

\* A coroutine that was created and not yet handed to a gather.
NotStarted == [at |-> "new", out |-> EmptyDict]

\* comprehensive_threat_check has not been called.
NoThreatCall == [at |-> "idle"]

TiIdle ==
    /\ threat_cache = <<>>
    /\ ti_call = NoThreatCall
    /\ ti_results = <<>>
    /\ ti_report = EmptyDict

\* _compile_scan_results has not been called.
CsIdle ==
    /\ cs_results = <<>>
    /\ cs_report = EmptyDict

\* multi_ai_analysis has not been called with its cache in view.
AiCacheIdle ==
    /\ analysis_cache = <<>>
    /\ ai_calls = <<>>

\* analytics_fallback as the module creates it.
AnalyticsIdle ==
    /\ analytics_fallback =
          [total_analyses |-> 0,
           risk_distribution |-> [high |-> 0, medium |-> 0, low |-> 0],
           platform_stats |-> EmptyDict]
    /\ analytics_raised = <<>>

OthersIdle == TiIdle /\ CsIdle /\ AiCacheIdle /\ AnalyticsIdle

\* No scan has created its adapter coroutines.
TierIdle ==
    /\ adapters = [n \in AdapterNames |-> NotStarted]
    /\ arrival = <<>>

\* No request has been answered; the database is not connected.
DbIdle ==
    /\ db_connected = FALSE
    /\ response = [s \in ScanIds |-> NoResponse]
    /\ batch_response = NoResponse

\* Adapter outcomes explored by the orchestration specification.
HttpOutcomes == {HttpOk(200, 50), HttpFail}
AiOutcomes == {AiOk(45, 70), AiFail}
HeadersOutcomes == {HeadersOk(4), HeadersFail}
ContentOutcomes == {ContentOk(0, FALSE), ContentFail}
DeepOutcomes == {DeepOk, DeepFail}

ScanInit ==
    /\ now = 0
    /\ ticks = 0
    /\ scan_cache = <<>>
    /\ heap = EmptyDict
    /\ pc = [s \in ScanIds |-> "idle"]
    /\ req = [s \in ScanIds |-> NoReq]
    /\ gathered = [s \in ScanIds |-> EmptyDict]
    /\ results = [s \in ScanIds |-> EmptyDict]
    /\ start_time = [s \in ScanIds |-> 0]
    /\ ret = [s \in ScanIds |-> NoRet]

ScoreIdle ==
    /\ sr_in = EmptyDict
    /\ sr_out = EmptyDict

\* No API request has been received.
ApiIdle == request = [s \in ScanIds |-> NoRequest]

\* multi_ai_analysis has not been called.
AiIdle ==
    /\ ai_results = <<>>
    /\ ai_decision = EmptyDict

Init ==
    /\ ScanInit /\ ScoreIdle /\ ApiIdle /\ AiIdle /\ VtIdle /\ RlIdle
    /\ BatchIdle /\ DbIdle /\ TierIdle /\ OthersIdle

\* Orchestration at a fixed clock reading: every adapter outcome.
Next ==
    \/ \E s \in 1 .. MaxFullScans, u \in Urls, o \in UltraOptions :
          UltraScan(s, u, o) /\ UNCHANGED aside
    \/ \E s \in 1 .. MaxFullScans, u \in Urls, d \in BOOLEAN :
          BatchItem(s, u, d) /\ UNCHANGED aside
    \/ \E s \in ScanIds, h \in HttpOutcomes, a \in AiOutcomes :
          Tier1Complete(s, h, a) /\ UNCHANGED <<aside, apiVars>>
    \/ \E s \in ScanIds, h \in HeadersOutcomes, c \in ContentOutcomes :
          Tier2Complete(s, h, c) /\ UNCHANGED <<aside, apiVars>>
    \/ \E s \in ScanIds : Tier2Timeout(s) /\ UNCHANGED <<aside, apiVars>>
    \/ \E s \in ScanIds, d \in DeepOutcomes :
          Tier3Complete(s, d) /\ UNCHANGED <<aside, apiVars>>
    \/ \E s \in ScanIds : Tier3Timeout(s) /\ UNCHANGED <<aside, apiVars>>

Spec == Init /\ [][Next]_vars

\* The event loop fires a wait_for deadline that is due; whether an adapter
\* ever answers is up to the network.
DeadlinesFire ==
    \A s \in ScanIds :
        /\ WF_vars(Tier2Timeout(s) /\ UNCHANGED <<aside, apiVars>>)
        /\ WF_vars(Tier3Timeout(s) /\ UNCHANGED <<aside, apiVars>>)

FairSpec == Spec /\ DeadlinesFire

\* The requests explored with a running clock: quick scans only.
QuickOptions == {o \in UltraOptions : ~o.deep_scan}

\* Orchestration with a running clock: quick scans whose adapters answer.
NextCache ==
    \/ \E s \in ScanIds, u \in Urls, o \in QuickOptions :
          UltraScan(s, u, o) /\ UNCHANGED aside
    \/ \E s \in ScanIds :
          Tier1Complete(s, HttpOk(200, 50), AiOk(45, 70))
          /\ UNCHANGED <<aside, apiVars>>
    \/ \E s \in ScanIds :
          Tier2Complete(s, HeadersOk(4), ContentOk(0, FALSE))
          /\ UNCHANGED <<aside, apiVars>>
    \/ \E d \in TickSteps : Tick(d) /\ UNCHANGED <<aside, apiVars>>

CacheSpec == Init /\ [][NextCache]_vars

\* ------------------------------------------- a scan cache about to fill up
\* The key of the i-th of the earlier requests that filled the cache: the
\* md5 keys of different requests differ.
FillerKey(i) == <<"https://a.example", [serial |-> i]>>

\* How the timestamps of the earlier entries lie in the dict's insertion
\* order: one second apart, all within one second, or with the entry
\* inserted first stored again last (an assignment to a key the dict
\* holds keeps its position).
FillShapes == {"spread", "burst", "restored"}

FillerTime(shape, i, n) ==
    CASE shape = "spread" -> i
      [] shape = "burst" -> 1
      [] shape = "restored" -> IF i = 1 THEN n + 1 ELSE i

\* The results of the earlier requests are objects of their own.
Filled(shape, n) ==
    [i \in 1 .. n |->
        [key |-> FillerKey(i), result |-> MaxScans + i,
         timestamp |-> FillerTime(shape, i, n)]]

\* The optimizer after max_cache_size - MaxRoom or more requests, none of
\* them older than cache_ttl.
StoreInit ==
    /\ now = max_cache_size + 1
    /\ ticks = 0
    /\ scan_cache \in {Filled(shape, max_cache_size - room) :
                          shape \in FillShapes, room \in 0 .. MaxRoom}
    /\ heap = EmptyDict
    /\ pc = [s \in ScanIds |-> "idle"]
    /\ req = [s \in ScanIds |-> NoReq]
    /\ gathered = [s \in ScanIds |-> EmptyDict]
    /\ results = [s \in ScanIds |-> EmptyDict]
    /\ start_time = [s \in ScanIds |-> 0]
    /\ ret = [s \in ScanIds |-> NoRet]
    /\ ScoreIdle /\ ApiIdle /\ AiIdle /\ VtIdle /\ RlIdle
    /\ BatchIdle /\ DbIdle /\ TierIdle /\ OthersIdle

\* Quick scans made one after another against the nearly full cache.
NextStore ==
    \/ \E s \in ScanIds, u \in Urls, o \in QuickOptions :
          /\ \A x \in ScanIds : pc[x] \in {"idle", "done"}
          /\ UltraScan(s, u, o)
          /\ UNCHANGED aside
    \/ \E s \in ScanIds :
          Tier1Complete(s, HttpOk(200, 50), AiOk(45, 70))
          /\ UNCHANGED <<aside, apiVars>>
    \/ \E s \in ScanIds :
          Tier2Complete(s, HeadersOk(4), ContentOk(0, FALSE))
          /\ UNCHANGED <<aside, apiVars>>
    \/ Tick(1) /\ UNCHANGED <<aside, apiVars>>

StoreSpec == StoreInit /\ [][NextStore]_vars

\* ------------------------------- _calculate_composite_score on its own
Absent == [absent |-> TRUE]

HttpChoices ==
    {Absent, ProcessOne(HttpFail)}
        \cup {HttpOk(c, t) : c \in HttpStatusCodes, t \in HttpResponseTimes}
AiChoices ==
    {Absent, ProcessOne(AiFail)}
        \cup {AiOk(t, c) : t \in AiThreats, c \in AiConfidences}
HeadersChoices ==
    {Absent, ProcessOne(HeadersFail)} \cup {HeadersOk(n) : n \in HeaderCounts}
ContentChoices ==
    {Absent, ProcessOne(ContentFail)}
        \cup {ContentOk(k, f) : k \in KeywordCounts, f \in BOOLEAN}
DeepChoices == {Absent, ProcessOne(DeepFail), DeepTimeout, DeepOk}

\* The scan_results dict holding the chosen entries.
MkResults(h, a, hd, c, d) ==
    LET all == [http_quick |-> h, ai_analysis |-> a, security_headers |-> hd,
                content_lite |-> c, deep_scan |-> d]
    IN  [n \in {m \in AdapterNames : all[m] # Absent} |-> all[n]]

ScoreInit ==
    /\ ScanInit
    /\ ApiIdle
    /\ AiIdle
    /\ VtIdle
    /\ RlIdle
    /\ BatchIdle
    /\ DbIdle
    /\ TierIdle
    /\ OthersIdle
    /\ \E h \in HttpChoices, a \in AiChoices, hd \in HeadersChoices,
          c \in ContentChoices, d \in DeepChoices :
          sr_in = MkResults(h, a, hd, c, d)
    /\ sr_out = EmptyDict

Calculate ==
    /\ DOMAIN sr_out = {}
    /\ sr_out' = _calculate_composite_score(sr_in)
    /\ UNCHANGED sr_in

NextScore ==
    Calculate
    /\ UNCHANGED <<scanVars, apiVars, aiVars, vtVars, rlVars, batchVars, dbVars,
                   tierVars, otherVars>>

ScoreSpec == ScoreInit /\ [][NextScore]_vars

\* ------------------------------------------- multi_ai_analysis on its own
NotConfigured == [configured |-> FALSE]

\* What one provider contributes: not configured, a failure, an answer.
ProviderChoices(provider) ==
    {NotConfigured, ProviderFail(provider), ProviderBare(provider)}
        \cup {ProviderOk(provider, t, c) :
                 t \in ProviderThreats, c \in ProviderConfidences}

EnsembleInit ==
    /\ ScanInit
    /\ ScoreIdle
    /\ ApiIdle
    /\ VtIdle
    /\ RlIdle
    /\ BatchIdle
    /\ DbIdle
    /\ TierIdle
    /\ OthersIdle
    /\ \E g \in ProviderChoices(Providers[1]),
          a \in ProviderChoices(Providers[2]),
          o \in ProviderChoices(Providers[3]) :
          ai_results = SelectSeq(<<g, a, o>>, LAMBDA r : r # NotConfigured)
    /\ ai_decision = EmptyDict

Analyze ==
    /\ DOMAIN ai_decision = {}
    /\ ai_decision' = multi_ai_analysis(ai_results)
    /\ UNCHANGED ai_results

NextEnsemble ==
    Analyze
    /\ UNCHANGED <<scanVars, scoreVars, apiVars, vtVars, rlVars, batchVars,
                   dbVars, tierVars, otherVars>>

EnsembleSpec == EnsembleInit /\ [][NextEnsemble]_vars

\* ------------------------------------------------ VirusTotalAPI on its own
HealthInit ==
    /\ ScanInit
    /\ ScoreIdle
    /\ ApiIdle
    /\ AiIdle
    /\ VtConstructed
    /\ api_key \in BOOLEAN
    /\ RlIdle
    /\ BatchIdle
    /\ DbIdle
    /\ TierIdle
    /\ OthersIdle

\* What a VirusTotalAPI step leaves alone.
besideVt ==
    <<scanVars, scoreVars, apiVars, aiVars, rlVars, batchVars, dbVars,
      tierVars, otherVars>>

\* One caller at a time: initialize(), the three scan methods with every
\* outcome of their request, and the two health queries.
NextHealth ==
    \/ \E o \in InitOutcomes : Initialize(o) /\ UNCHANGED besideVt
    \/ \E op \in VtMethods : VtCall(1, op) /\ UNCHANGED besideVt
    \/ RateWake(1) /\ UNCHANGED besideVt
    \/ \E o \in VtOutcomes : VtRespond(1, o) /\ UNCHANGED besideVt
    \/ HealthCheck /\ UNCHANGED besideVt
    \/ GetApiQuota /\ UNCHANGED besideVt

HealthSpec == HealthInit /\ [][NextHealth]_vars

\* ---------------------------------------- the rate limiters on their own
\* What a rate-limiter step leaves alone.
besideRate ==
    <<scanVars, scoreVars, apiVars, aiVars, batchVars, dbVars, tierVars, otherVars>>

\* Calls made one after another by one caller, with time passing between
\* them, on each of the two limiters.
NextRate ==
    \/ RateCall(1, MaxRateCalls) /\ UNCHANGED <<besideRate, rlVars>>
    \/ RateWake(1) /\ UNCHANGED <<besideRate, rlVars>>
    \/ Acquire(1) /\ UNCHANGED besideRate
    \/ AcquireWake(1) /\ UNCHANGED besideRate
    \/ VtTick /\ UNCHANGED <<besideRate, rlVars>>

RateSpec == Init /\ [][NextRate]_vars

\* ------------------------------------------- the adapters of one scan
\* The task lists of _parallel_optimized_scan, in task order.
high_priority_tasks == <<"http_quick", "ai_analysis">>
medium_priority_tasks == <<"security_headers", "content_lite">>
low_priority_tasks == <<"deep_scan">>

Range(seq) == {seq[i] : i \in DOMAIN seq}

\* Mutant of Launch: every adapter not yet started is started.
LaunchAll(ad, names) ==
    [n \in AdapterNames |->
        IF ad[n].at = "new" THEN [at |-> "running", out |-> EmptyDict]
        ELSE ad[n]]

\* asyncio.gather(*tasks): the coroutines of one task list start running.
Launch(ad, names) ==
    [n \in AdapterNames |->
        IF n \in names THEN [at |-> "running", out |-> EmptyDict]
        ELSE ad[n]]

\* wait_for timed out: the adapters still running are cancelled.
Cancel(ad, names) ==
    [n \in AdapterNames |->
        IF n \in names /\ ad[n].at = "running"
        THEN [at |-> "cancelled", out |-> EmptyDict]
        ELSE ad[n]]

\* What each adapter may hand to its gather.
OutcomesOf(n) ==
    CASE n = "http_quick" -> HttpOutcomes
      [] n = "ai_analysis" -> AiOutcomes
      [] n = "security_headers" -> HeadersOutcomes
      [] n = "content_lite" -> ContentOutcomes
      [] n = "deep_scan" -> DeepOutcomes

AllDone(names) == \A i \in DOMAIN names : adapters[names[i]].at = "done"

\* Mutant of Gathered: the outputs in the order the adapters completed.
GatheredAsCompleted(names) ==
    LET done == SelectSeq(arrival, LAMBDA n : n \in Range(names))
    IN  [i \in DOMAIN names |-> adapters[done[i]].out]

\* The list a finished gather returns: the outputs in task order.
Gathered(names) == [i \in DOMAIN names |-> adapters[names[i]].out]

\* ultra_fast_scan is called for scan 1; on a cache miss the Tier-1 gather
\* starts its adapters.
ScanStart(url, options) ==
    /\ UltraScan(1, url, options)
    /\ adapters' = IF pc'[1] = "tier1"
                   THEN Launch(adapters, Range(high_priority_tasks))
                   ELSE adapters
    /\ UNCHANGED arrival

\* A running adapter returns its output.
AdapterDone(n, out) ==
    /\ adapters[n].at = "running"
    /\ adapters' = [adapters EXCEPT ![n] = [at |-> "done", out |-> out]]
    /\ arrival' = Append(arrival, n)
    /\ UNCHANGED <<scanVars, apiVars>>

\* Every Tier-1 adapter has completed: the gather returns and the Tier-2
\* gather starts its adapters.
GatherTier1 ==
    /\ AllDone(high_priority_tasks)
    /\ Tier1Complete(1, Gathered(high_priority_tasks)[1],
                     Gathered(high_priority_tasks)[2])
    /\ adapters' = Launch(adapters, Range(medium_priority_tasks))
    /\ UNCHANGED <<arrival, apiVars>>

\* Every Tier-2 adapter has completed within the 3 s; with deep_scan the
\* Tier-3 gather starts its adapter.
GatherTier2 ==
    /\ AllDone(medium_priority_tasks)
    /\ Tier2Complete(1, Gathered(medium_priority_tasks)[1],
                     Gathered(medium_priority_tasks)[2])
    /\ adapters' = IF pc'[1] = "tier3"
                   THEN Launch(adapters, Range(low_priority_tasks))
                   ELSE adapters
    /\ UNCHANGED <<arrival, apiVars>>

\* The 3 s elapse with a Tier-2 adapter unfinished.
TimeoutTier2 ==
    /\ ~AllDone(medium_priority_tasks)
    /\ Tier2Timeout(1)
    /\ adapters' = Cancel(adapters, Range(medium_priority_tasks))
    /\ UNCHANGED <<arrival, apiVars>>

\* The deep scan has completed within the 5 s.
GatherTier3 ==
    /\ AllDone(low_priority_tasks)
    /\ Tier3Complete(1, Gathered(low_priority_tasks)[1])
    /\ UNCHANGED <<adapters, arrival, apiVars>>

\* The 5 s elapse with the deep scan unfinished.
TimeoutTier3 ==
    /\ ~AllDone(low_priority_tasks)
    /\ Tier3Timeout(1)
    /\ adapters' = Cancel(adapters, Range(low_priority_tasks))
    /\ UNCHANGED <<arrival, apiVars>>

besideTier ==
    <<scoreVars, aiVars, vtVars, rlVars, batchVars, dbVars, otherVars>>

\* One scan with its adapters completing one by one, in any order.
NextTier ==
    \/ \E u \in Urls, o \in UltraOptions :
          ScanStart(u, o) /\ UNCHANGED besideTier
    \/ \E n \in AdapterNames :
          \E out \in OutcomesOf(n) :
             AdapterDone(n, out) /\ UNCHANGED besideTier
    \/ GatherTier1 /\ UNCHANGED besideTier
    \/ GatherTier2 /\ UNCHANGED besideTier
    \/ TimeoutTier2 /\ UNCHANGED besideTier
    \/ GatherTier3 /\ UNCHANGED besideTier
    \/ TimeoutTier3 /\ UNCHANGED besideTier

TierSpec == Init /\ [][NextTier]_vars

\* ------------------------------------------------ the endpoints' answers
\* Targets that are no URL: the empty string and free text.
MalformedTargets == {"", "not a url"}

Targets == Urls \cup MalformedTargets

\* POST /ultra-scan up to its first suspension: an empty url is answered
\* with 400, any other string goes to ultra_fast_scan.
UltraRequest(s, url, options) ==
    IF url = ""
    THEN /\ pc[s] = "idle"
         /\ request[s] = NoRequest
         /\ \A t \in ScanIds : t < s => pc[t] # "idle"
         /\ request' = [request EXCEPT
                          ![s] = [endpoint |-> "ultra-scan",
                                  deep_scan |-> options.deep_scan]]
         /\ response' = [response EXCEPT
                           ![s] = [status |-> 400,
                                   detail |-> "URL is required"]]
         /\ UNCHANGED <<scanVars, db_connected, batch_response>>
    ELSE /\ request[s] = NoRequest
         /\ UltraScan(s, url, options)
         /\ UNCHANGED dbVars

\* POST /ultra-scan after ultra_fast_scan: the record is stored when the
\* database is connected, which raises at db_manager.db (DatabaseManager
\* has no such attribute); any exception becomes a 500 answer.
UltraRespond(s) ==
    /\ request[s].endpoint = "ultra-scan"
    /\ ret[s].kind # "none"
    /\ response[s] = NoResponse
    /\ response' = [response EXCEPT
                      ![s] = IF ret[s].kind = "error" \/ db_connected
                             THEN [status |-> 500,
                                   detail |-> "Ultra-scan failed"]
                             ELSE [status |-> 200, result |-> ret[s].value]]
    /\ UNCHANGED <<scanVars, apiVars, db_connected, batch_response>>

ApiInit ==
    /\ ScanInit
    /\ ScoreIdle
    /\ ApiIdle
    /\ AiIdle
    /\ VtIdle
    /\ RlIdle
    /\ BatchIdle
    /\ db_connected \in BOOLEAN
    /\ TierIdle
    /\ OthersIdle
    /\ response = [s \in ScanIds |-> NoResponse]
    /\ batch_response = NoResponse

\* What a request leaves alone besides the scans and the answers.
besideApi == <<scoreVars, aiVars, vtVars, rlVars, batchVars, tierVars, otherVars>>

\* Requests for any target string at a fixed clock reading, with every
\* adapter outcome.
NextApi ==
    \/ \E s \in 1 .. MaxFullScans, u \in Targets, o \in UltraOptions :
          UltraRequest(s, u, o) /\ UNCHANGED besideApi
    \/ \E s \in 1 .. MaxFullScans, u \in Targets, d \in BOOLEAN :
          BatchItem(s, u, d) /\ UNCHANGED aside
    \/ \E s \in ScanIds, h \in HttpOutcomes, a \in AiOutcomes :
          Tier1Complete(s, h, a) /\ UNCHANGED <<aside, apiVars>>
    \/ \E s \in ScanIds, h \in HeadersOutcomes, c \in ContentOutcomes :
          Tier2Complete(s, h, c) /\ UNCHANGED <<aside, apiVars>>
    \/ \E s \in ScanIds : Tier2Timeout(s) /\ UNCHANGED <<aside, apiVars>>
    \/ \E s \in ScanIds, d \in DeepOutcomes :
          Tier3Complete(s, d) /\ UNCHANGED <<aside, apiVars>>
    \/ \E s \in ScanIds : Tier3Timeout(s) /\ UNCHANGED <<aside, apiVars>>
    \/ \E s \in ScanIds : UltraRespond(s) /\ UNCHANGED besideApi

ApiSpec == ApiInit /\ [][NextApi]_vars

\* ------------------------------------------------ batch scans on their own
\* POST /batch-scan answers: the report, unless storing it raises.
BatchRespond ==
    /\ batch_result # NoResult
    /\ batch_response = NoResponse
    /\ batch_response' =
          IF db_connected
          THEN [status |-> 500, detail |-> "Batch scan failed"]
          ELSE [status |-> 200, result |-> batch_result]
    /\ UNCHANGED <<db_connected, response>>

BatchUrls == Urls \cup {"https://b.example"}

\* The URL lists of at most MaxTargets URLs that BatchScanRequest accepts.
UrlLists ==
    UNION {[1 .. n -> BatchUrls] : n \in 1 .. MaxTargets}

\* batch_scan_urls(urls, max_concurrent) up to its gather: the semaphore
\* is created and every scan_with_semaphore(url) waits for it.
BatchInit ==
    /\ ScanInit
    /\ ScoreIdle
    /\ ApiIdle
    /\ AiIdle
    /\ VtIdle
    /\ RlIdle
    /\ urls \in UrlLists
    /\ max_concurrent \in 1 .. MaxConcurrent
    /\ semaphore = max_concurrent
    /\ tasks = [i \in DOMAIN urls |-> Waiting]
    /\ batch_result = NoResult
    /\ db_connected \in BOOLEAN
    /\ TierIdle
    /\ OthersIdle
    /\ response = [s \in ScanIds |-> NoResponse]
    /\ batch_response = NoResponse

besideBatch ==
    <<scanVars, scoreVars, apiVars, aiVars, vtVars, rlVars, tierVars, otherVars>>

NextBatch ==
    \/ \E i \in 1 .. MaxTargets :
          EnterSemaphore(i) /\ UNCHANGED <<besideBatch, dbVars>>
    \/ \E i \in 1 .. MaxTargets, o \in ScanOutcomes :
          LeaveSemaphore(i, o) /\ UNCHANGED <<besideBatch, dbVars>>
    \/ BatchReturn /\ UNCHANGED <<besideBatch, dbVars>>
    \/ BatchRespond /\ UNCHANGED <<besideBatch, batchVars>>

BatchSpec == BatchInit /\ [][NextBatch]_vars

\* Concurrent callers of RateLimiter.acquire, on a limiter that has
\* granted DailyUsed requests since the last daily reset and none in the
\* last time_window.
DailyUsed == {0, DailyLimit - MaxDailyLeft}

AcquireInit ==
    /\ ScanInit
    /\ ScoreIdle
    /\ ApiIdle
    /\ AiIdle
    /\ VtIdle
    /\ BatchIdle
    /\ DbIdle
    /\ TierIdle
    /\ OthersIdle
    /\ requests = <<>>
    /\ daily_requests \in DailyUsed
    /\ daily_reset = DaySeconds
    /\ rl_pc = [c \in VtCallers |-> RlIdlePc]
    /\ rl_permits = <<>>
    /\ rl_started = 0

NextAcquire ==
    \/ \E c \in VtCallers : AcquireCall(c, MaxBurst) /\ UNCHANGED besideRate
    \/ \E c \in VtCallers : AcquireWake(c) /\ UNCHANGED besideRate
    \/ VtTick /\ UNCHANGED <<besideRate, rlVars>>

AcquireSpec == AcquireInit /\ [][NextAcquire]_vars

\* Concurrent callers of both limiters; the clock moves when a sleep ends,
\* and a sleep that is due ends.
CheckWakes(c) == RateWake(c) /\ UNCHANGED <<besideRate, rlVars>>

AcquireWakes(c) == AcquireWake(c) /\ UNCHANGED besideRate

NextWait ==
    \/ \E c \in VtCallers :
          RateCall(c, MaxWaitCalls) /\ UNCHANGED <<besideRate, rlVars>>
    \/ \E c \in VtCallers : CheckWakes(c)
    \/ \E c \in VtCallers :
          AcquireCall(c, MaxWaitCalls) /\ UNCHANGED besideRate
    \/ \E c \in VtCallers : AcquireWakes(c)

SleepsEnd ==
    \A c \in VtCallers :
        WF_vars(CheckWakes(c)) /\ WF_vars(AcquireWakes(c))

WaitSpec == AcquireInit /\ [][NextWait]_vars /\ SleepsEnd

\* Concurrent callers of VirusTotalAPI._rate_limit_check; the clock moves
\* when a sleep ends.
NextBurst ==
    \/ \E c \in VtCallers :
          RateCall(c, MaxBurst) /\ UNCHANGED <<besideRate, rlVars>>
    \/ \E c \in VtCallers : RateWake(c) /\ UNCHANGED <<besideRate, rlVars>>

BurstSpec == Init /\ [][NextBurst]_vars

\* -------------------------------------------------- ThreatIntelligence
\* URLs are told apart by a serial number; md5(url) is modelled by the
\* number itself.
ThreatUrls == 1 .. MaxThreatUrls

ThreatKey(url) == url

\* _calculate_threat_level
_calculate_threat_level(score) ==
    IF score > 80 THEN "critical"
    ELSE IF score > 60 THEN "high"
    ELSE IF score > 40 THEN "medium"
    ELSE IF score > 20 THEN "low"
    ELSE "minimal"

RECURSIVE SumSeq(_)
SumSeq(ns) == IF ns = <<>> THEN 0 ELSE Head(ns) + SumSeq(Tail(ns))

\* The weights of the patterns of the database that match a URL, in the
\* order of the database.
PatternMatches == {<<>>, <<40>>, <<35, 25>>, <<40, 45, 30>>}

\* _check_custom_threat_patterns, for the matched patterns' weights.
_check_custom_threat_patterns(weights) ==
    [source |-> "custom_threat_patterns",
     threats_detected |-> [i \in DOMAIN weights |->
                              [weight |-> weights[i],
                               pattern_type |-> "custom_threat_db"]],
     threat_count |-> Len(weights),
     total_threat_score |-> Min(100, SumSeq(weights)),
     threat_level |-> _calculate_threat_level(SumSeq(weights))]

\* What the other five checks return.
UrlhausOutcomes ==
    {[source |-> "urlhaus", threat_found |-> FALSE, status |-> "clean"],
     [source |-> "urlhaus", threat_found |-> TRUE, threat_type |-> "malware",
      confidence |-> 95, details |-> [threat_level |-> "high"]],
     [source |-> "urlhaus", error |-> "HTTP 500"]}

OpenphishOutcomes ==
    {[source |-> "openphish_patterns", threat_found |-> FALSE,
      status |-> "no_pattern_match"],
     [source |-> "openphish_patterns", threat_found |-> TRUE,
      threat_type |-> "phishing", confidence |-> 88]}

ReputationOutcomes ==
    {[source |-> "domain_reputation", reputation_score |-> 80]}

TldOutcomes ==
    {[source |-> "tld_analysis", risk_score |-> r,
      assessment |-> IF r > 70 THEN "high_risk"
                     ELSE IF r > 40 THEN "medium_risk" ELSE "low_risk"] :
        r \in {20, 90}}

StructureOutcomes ==
    {[source |-> "url_structure_analysis", structure_threat_score |-> n,
      assessment |-> IF n > 50 THEN "high_risk_structure"
                     ELSE IF n > 25 THEN "moderate_risk_structure"
                     ELSE "standard_structure"] :
        n \in {0, 25}}

\* The lists asyncio.gather may return for the six checks, in task order.
ThreatResults ==
    {<<u, o, r, _check_custom_threat_patterns(w), t, s>> :
        u \in UrlhausOutcomes, o \in OpenphishOutcomes,
        r \in ReputationOutcomes, w \in PatternMatches,
        t \in TldOutcomes, s \in StructureOutcomes}

check_names ==
    <<"urlhaus_check", "openphish_check", "domain_reputation",
      "custom_patterns", "tld_analysis", "url_structure">>

\* result.get("threat_score", result.get("structure_threat_score",
\*            result.get("risk_score", 0)))
threat_contribution(result) ==
    Get(result, "threat_score",
        Get(result, "structure_threat_score", Get(result, "risk_score", 0)))

\* compiled["overall_threat_level"] after the loop over the results.
RECURSIVE OverallThreatLevel(_)
OverallThreatLevel(checks) ==
    IF checks = <<>> THEN 0
    ELSE OverallThreatLevel(Tail(checks))
           + (IF ~HasError(Head(checks))
                 /\ threat_contribution(Head(checks)) > 0
              THEN threat_contribution(Head(checks)) ELSE 0)

\* compiled["threats_found"] after the loop over the results.
ThreatsFound(checks) ==
    LET found == SelectSeq(checks,
                           LAMBDA r : ~HasError(r)
                                      /\ Get(r, "threat_found", FALSE))
    IN  [i \in DOMAIN found |->
            [source |-> found[i].source,
             threat_type |-> Get(found[i], "threat_type", "unknown"),
             confidence |-> Get(found[i], "confidence", 75),
             details |-> Get(found[i], "details", EmptyDict)]]

\* _compile_threat_intelligence(url, results) at time t
_compile_threat_intelligence(url, checks, t) ==
    LET checked == Len(SelectSeq(checks, LAMBDA r : ~HasError(r)))
        level == OverallThreatLevel(checks)
        found == ThreatsFound(checks)
        score == Min(100, level)
        byName == [n \in {check_names[i] : i \in DOMAIN checks} |->
                     LET r == checks[CHOOSE i \in DOMAIN checks :
                                         check_names[i] = n]
                     IN  IF HasError(r) THEN [error |-> r] ELSE r]
    IN  Update(byName,
               [url |-> url,
                threat_intelligence_timestamp |-> t,
                sources_checked |-> checked,
                threats_found |-> found,
                overall_threat_level |-> level,
                threat_intelligence_score |-> score,
                threats_detected |-> Len(found),
                assessment |-> IF Len(found) > 0 THEN "threats_detected"
                               ELSE IF score > 40
                               THEN "suspicious_indicators"
                               ELSE "no_immediate_threats",
                confidence |-> IF checked > 0
                               THEN Min(95, 60 + checked * 8) ELSE 40])

\* _get_cached_threat_data: [result (the data, or EmptyDict for None),
\* cache (after)]
_get_cached_threat_data(cache, cache_key, t) ==
    IF cache_key \notin CacheKeys(cache)
    THEN [result |-> EmptyDict, cache |-> cache]
    ELSE LET cached == CacheEntry(cache, cache_key)
         IN  IF t - cached.timestamp > ThreatCacheTtl
             THEN [result |-> EmptyDict,
                   cache |-> CacheDelete(cache, cache_key)]
             ELSE [result |-> cached.data, cache |-> cache]

\* _cache_threat_data
_cache_threat_data(cache, cache_key, data, t) ==
    LET oldest == SubSeq(sorted_cache(cache), 1, ThreatEvictBatch)
        old == {oldest[i].key : i \in DOMAIN oldest}
        kept == IF Len(cache) > ThreatCacheMax
                THEN SelectSeq(cache, LAMBDA e : e.key \notin old)
                ELSE cache
        entry == [key |-> cache_key, data |-> data, timestamp |-> t]
    IN  IF cache_key \in CacheKeys(kept)
        THEN [kept EXCEPT ![CacheIndex(kept, cache_key)] = entry]
        ELSE Append(kept, entry)

\* comprehensive_threat_check up to its await: the cache lookup.
ThreatCheck(url) ==
    /\ ti_call = NoThreatCall
    /\ LET got == _get_cached_threat_data(threat_cache, ThreatKey(url), now)
       IN  /\ threat_cache' = got.cache
           /\ IF got.result # EmptyDict
              THEN /\ ti_report' = got.result
                   /\ ti_results' = <<>>
                   /\ UNCHANGED ti_call
              ELSE /\ ti_call' = [at |-> "gathering", url |-> url,
                                  start_time |-> now]
                   /\ UNCHANGED <<ti_results, ti_report>>

\* The gather of the six checks returns: the report is compiled, cached
\* and, with processing_time_ms written into it, returned.
ThreatGathered(checks) ==
    /\ ti_call.at = "gathering"
    /\ LET report ==
              Update(_compile_threat_intelligence(ti_call.url, checks, now),
                     [processing_time_ms |->
                         ElapsedMs(ti_call.start_time, now)])
       IN  /\ threat_cache' = _cache_threat_data(
                 threat_cache, ThreatKey(ti_call.url), report, now)
           /\ ti_report' = report
    /\ ti_results' = checks
    /\ ti_call' = NoThreatCall

besideThreat ==
    <<scoreVars, apiVars, aiVars, vtVars, rlVars, batchVars, dbVars,
      tierVars, csVars, aiCacheVars, analyticsVars>>

\* Threat checks of one URL, with every outcome of the six checks.
NextThreat ==
    \/ ThreatCheck(1) /\ UNCHANGED <<scanVars, besideThreat>>
    \/ \E rs \in ThreatResults :
          ThreatGathered(rs) /\ UNCHANGED <<scanVars, besideThreat>>
    \/ \E d \in TickSteps : Tick(d) /\ UNCHANGED <<tiVars, besideThreat>>

ThreatSpec == Init /\ [][NextThreat]_vars

\* The entries of the threat cache after n checks of other URLs, a second
\* apart.
ThreatFilled(n) ==
    [i \in 1 .. n |->
        [key |-> ThreatKey(MaxThreatUrls + i),
         data |-> [url |-> MaxThreatUrls + i],
         timestamp |-> i]]

\* ThreatIntelligence after ThreatCacheMax - MaxRoom or more checks, none
\* of them older than the cache's lifetime.
ThreatCacheInit ==
    /\ now = ThreatCacheMax + 1
    /\ ticks = 0
    /\ scan_cache = <<>>
    /\ heap = EmptyDict
    /\ pc = [s \in ScanIds |-> "idle"]
    /\ req = [s \in ScanIds |-> NoReq]
    /\ gathered = [s \in ScanIds |-> EmptyDict]
    /\ results = [s \in ScanIds |-> EmptyDict]
    /\ start_time = [s \in ScanIds |-> 0]
    /\ ret = [s \in ScanIds |-> NoRet]
    /\ ScoreIdle /\ ApiIdle /\ AiIdle /\ VtIdle /\ RlIdle
    /\ BatchIdle /\ DbIdle /\ TierIdle
    /\ CsIdle /\ AiCacheIdle /\ AnalyticsIdle
    /\ threat_cache \in {ThreatFilled(ThreatCacheMax - room) :
                            room \in 0 .. MaxRoom}
    /\ ti_call = NoThreatCall
    /\ ti_results = <<>>
    /\ ti_report = EmptyDict

\* Checks of further URLs, one after another, that find nothing.
NextThreatCache ==
    \/ \E u \in ThreatUrls :
          ThreatCheck(u) /\ UNCHANGED <<scanVars, besideThreat>>
    \/ ThreatGathered(<<CHOOSE u \in UrlhausOutcomes :
                            ~HasError(u) /\ ~u.threat_found,
                         CHOOSE o \in OpenphishOutcomes : ~o.threat_found,
                         CHOOSE r \in ReputationOutcomes : TRUE,
                         _check_custom_threat_patterns(<<>>),
                         CHOOSE t \in TldOutcomes : t.risk_score = 20,
                         CHOOSE s \in StructureOutcomes :
                            s.structure_threat_score = 0>>)
       /\ UNCHANGED <<scanVars, besideThreat>>
    \/ Tick(1) /\ UNCHANGED <<tiVars, besideThreat>>

ThreatCacheSpec == ThreatCacheInit /\ [][NextThreatCache]_vars

\* --------------------------------------------------- AdvancedWebScanner
\* How the TLS handshake of _ssl_analysis ends.
SslOutcomes == {"valid", "invalid", "unreachable"}

\* _ssl_analysis: the certificate's analysis, or the record of the except
\* branch, which every failure of the connection or the handshake takes.
_ssl_analysis(outcome) ==
    IF outcome = "valid"
    THEN [ssl_valid |-> TRUE, ssl_grade |-> "A"]
    ELSE [ssl_valid |-> FALSE,
          error |-> IF outcome = "invalid"
                    THEN "CERTIFICATE_VERIFY_FAILED" ELSE "timed out",
          scan_type |-> "ssl_analysis"]

\* What the other scans return.
HttpAnalyses ==
    {[status_code |-> 200, response_time_ms |-> 100],
     [status_code |-> 404, response_time_ms |-> 100],
     [error |-> "ClientError", scan_type |-> "http_analysis"]}

HeaderScans ==
    {[security_score |-> 100], [security_score |-> 50],
     [error |-> "ClientError", scan_type |-> "security_headers"]}

MalwareScores == {0, 25}
PhishingScores == {0, 40}
SocialScores == {0, 40}

\* The lists asyncio.gather may return for the nine scans, in task order.
ScanResults ==
    {<<h, [title |-> "t"], sh, [has_mx |-> TRUE], _ssl_analysis(s),
       [reputation_score |-> 80], [malware_score |-> m],
       [phishing_score |-> p], [social_engineering_score |-> e]>> :
        h \in HttpAnalyses, sh \in HeaderScans, s \in SslOutcomes,
        m \in MalwareScores, p \in PhishingScores, e \in SocialScores}

scan_names ==
    <<"http_analysis", "content_analysis", "security_headers",
      "dns_analysis", "ssl_analysis", "domain_reputation",
      "malware_detection", "phishing_detection", "social_engineering">>

\* Whether the score calculation looks at the scan's entry.
Usable(compiled, name) ==
    name \in DOMAIN compiled /\ ~HasError(compiled[name])

\* What each step takes from total_score, in hundredths, and the risk
\* factor it adds.
HttpStep(compiled) ==
    IF ~Usable(compiled, "http_analysis") THEN [cost |-> 0, factors |-> <<>>]
    ELSE LET d == compiled["http_analysis"]
             bad == Get(d, "status_code", 200) # 200
             slow == Get(d, "response_time_ms", 0) > 3000
         IN  [cost |-> (IF bad THEN 1000 ELSE 0) + (IF slow THEN 500 ELSE 0),
              factors |-> (IF bad THEN <<"Non-200 HTTP status">> ELSE <<>>)
                          \o (IF slow THEN <<"Slow response time">>
                              ELSE <<>>)]

HeadersStep(compiled) ==
    IF ~Usable(compiled, "security_headers")
    THEN [cost |-> 0, factors |-> <<>>]
    ELSE LET s == Get(compiled["security_headers"], "security_score", 100)
         IN  [cost |-> (100 - s) * 30,
              factors |-> IF s < 80 THEN <<"Poor security headers">>
                          ELSE <<>>]

SslStep(compiled) ==
    IF ~Usable(compiled, "ssl_analysis") THEN [cost |-> 0, factors |-> <<>>]
    ELSE IF ~Get(compiled["ssl_analysis"], "ssl_valid", FALSE)
    THEN [cost |-> 2500, factors |-> <<"Invalid SSL certificate">>]
    ELSE [cost |-> 0, factors |-> <<>>]

\* The three pattern scans: score * rate, and a factor above a threshold.
PatternStep(compiled, name, field, rate, above, factor) ==
    IF ~Usable(compiled, name) THEN [cost |-> 0, factors |-> <<>>]
    ELSE LET s == Get(compiled[name], field, 0)
         IN  [cost |-> s * rate,
              factors |-> IF s > above THEN <<factor>> ELSE <<>>]

_get_comprehensive_risk_level(score) ==
    IF score >= 90 THEN "very_low"
    ELSE IF score >= 75 THEN "low"
    ELSE IF score >= 60 THEN "medium"
    ELSE IF score >= 40 THEN "high"
    ELSE "critical"

\* _calculate_comprehensive_score: for the scores above the doubles give
\* the exact truncation.
_calculate_comprehensive_score(compiled) ==
    LET steps == <<HttpStep(compiled), HeadersStep(compiled),
                   SslStep(compiled),
                   PatternStep(compiled, "malware_detection",
                               "malware_score", 40, 20,
                               "Malware patterns detected"),
                   PatternStep(compiled, "phishing_detection",
                               "phishing_score", 35, 25,
                               "Phishing indicators present"),
                   PatternStep(compiled, "social_engineering",
                               "social_engineering_score", 25, 30,
                               "Social engineering tactics detected")>>
        total == 10000 - SumSeq([i \in DOMAIN steps |-> steps[i].cost])
        final_score == Max(0, TruncDiv(total, 100))
    IN  [overall_security_score |-> final_score,
         risk_factors |-> steps[1].factors \o steps[2].factors
                            \o steps[3].factors \o steps[4].factors
                            \o steps[5].factors \o steps[6].factors,
         risk_level |-> _get_comprehensive_risk_level(final_score)]

\* _compile_scan_results(url, results)
_compile_scan_results(url, rs) ==
    LET byName == [n \in {scan_names[i] : i \in DOMAIN rs} |->
                     LET r == rs[CHOOSE i \in DOMAIN rs : scan_names[i] = n]
                     IN  IF HasError(r)
                         THEN [error |-> r.error, status |-> "failed"]
                         ELSE r]
        successful_scans == Len(SelectSeq(rs, LAMBDA r : ~HasError(r)))
    IN  Update(byName,
               [url |-> url,
                scan_version |-> "3.1-advanced",
                comprehensive_analysis |->
                    _calculate_comprehensive_score(byName),
                scan_summary |->
                    [total_scans |-> Len(scan_names),
                     successful_scans |-> successful_scans,
                     success_rate |->
                         RoundTenths(successful_scans, Len(scan_names))]])

\* The nine scans of one comprehensive scan have returned.
CompileInit ==
    /\ ScanInit /\ ScoreIdle /\ ApiIdle /\ AiIdle /\ VtIdle /\ RlIdle
    /\ BatchIdle /\ DbIdle /\ TierIdle
    /\ TiIdle /\ AiCacheIdle /\ AnalyticsIdle
    /\ cs_results \in ScanResults
    /\ cs_report = EmptyDict

\* comprehensive_scan compiles what its gather returned.
CompileScan ==
    /\ cs_report = EmptyDict
    /\ cs_report' = _compile_scan_results("https://a.example", cs_results)
    /\ UNCHANGED cs_results

NextCompile ==
    CompileScan
    /\ UNCHANGED <<scanVars, scoreVars, apiVars, aiVars, vtVars, rlVars,
                   batchVars, dbVars, tierVars, tiVars, aiCacheVars,
                   analyticsVars>>

CompileSpec == CompileInit /\ [][NextCompile]_vars

\* ------------------------------------- the cache of multi_ai_analysis
\* The texts analysed: two of one length and a shorter one.
Contents == {"you won a prize", "see you at noon", "hello"}

\* The answers gathered when groq is the configured provider.
AiAnswers == {<<ProviderOk("groq", t, 90)>> : t \in {0, 80}}

\* cache_key = f"{url}:{len(content)}"
AiCacheKey(url, content) == <<url, Len(content)>>

\* Whether the lookup of multi_ai_analysis answers from the cache.
AiCacheHit(cache, key, t) ==
    /\ key \in CacheKeys(cache)
    /\ t - CacheEntry(cache, key).timestamp < AiCacheTtl

\* final_result with its performance record.
WithPerformance(decision, rs, ms) ==
    Update(decision,
           [performance |->
               [analysis_time_ms |-> ms,
                providers_used |->
                    Len(SelectSeq(rs, LAMBDA r : "provider" \in DOMAIN r)),
                cache_used |-> FALSE]])

\* self.analysis_cache[cache_key] = {...}; `call` numbers the call that
\* produced the result.
AiCacheStore(cache, key, result, call, t) ==
    LET entry == [key |-> key, result |-> result, timestamp |-> t,
                  call |-> call]
    IN  IF key \in CacheKeys(cache)
        THEN [cache EXCEPT ![CacheIndex(cache, key)] = entry]
        ELSE Append(cache, entry)

\* multi_ai_analysis(url, content), the providers answering rs: a call
\* made when no other call is suspended in it.
MultiAiAnalysis(url, content, rs) ==
    LET key == AiCacheKey(url, content)
        call == Len(ai_calls) + 1
    IN  /\ Len(ai_calls) < MaxAiCalls
        /\ IF AiCacheHit(analysis_cache, key, now)
           THEN /\ ai_calls' =
                      Append(ai_calls,
                             [url |-> url, content |-> content,
                              result |-> CacheEntry(analysis_cache,
                                                    key).result,
                              from |-> CacheEntry(analysis_cache, key).call])
                /\ UNCHANGED analysis_cache
           ELSE LET final_result ==
                        WithPerformance(_ensemble_decision(rs), rs, 0)
                IN  /\ analysis_cache' =
                          AiCacheStore(analysis_cache, key, final_result,
                                       call, now)
                    /\ ai_calls' =
                          Append(ai_calls,
                                 [url |-> url, content |-> content,
                                  result |-> final_result, from |-> call])

besideAiCache ==
    <<scoreVars, apiVars, aiVars, vtVars, rlVars, batchVars, dbVars,
      tierVars, tiVars, csVars, analyticsVars>>

NextAiCache ==
    \/ \E u \in BatchUrls, c \in Contents, rs \in AiAnswers :
          MultiAiAnalysis(u, c, rs) /\ UNCHANGED <<scanVars, besideAiCache>>
    \/ \E d \in TickSteps :
          Tick(d) /\ UNCHANGED <<aiCacheVars, besideAiCache>>

AiCacheSpec == Init /\ [][NextAiCache]_vars

\* ------------------------------------------- the quota the client reports
\* A whole rate-limit window passes in which no call is made.
WindowPasses ==
    /\ vt_now < MaxWindows * RateWindow
    /\ vt_now' = vt_now + RateWindow
    /\ UNCHANGED <<api_key, client, health_cache, request_times, vt_pc,
                   vt_out, network, outcomes, permits, started>>

\* One caller's rate-limited calls, the two queries, and time passing.
NextQuota ==
    \/ RateCall(1, MaxRateCalls) /\ UNCHANGED besideVt
    \/ RateWake(1) /\ UNCHANGED besideVt
    \/ HealthCheck /\ UNCHANGED besideVt
    \/ GetApiQuota /\ UNCHANGED besideVt
    \/ VtTick /\ UNCHANGED besideVt
    \/ WindowPasses /\ UNCHANGED besideVt

QuotaSpec == Init /\ [][NextQuota]_vars

\* --------------------------------------------------------- main.py analytics
\* The risk levels analyze_content_safety assigns.
RiskLevels == {"critical", "high", "medium", "low", "minimal"}

\* Platforms named in the request field's description.
Platforms == {"general", "twitter", "telegram"}

\* update_analytics: the total is counted first; the counter of a risk
\* level that risk_distribution does not hold raises KeyError, which
\* ends the call before the platform is counted.
update_analytics(risk_level, platform) ==
    LET counted == [analytics_fallback EXCEPT !.total_analyses = @ + 1]
        stats == analytics_fallback.platform_stats
    IN  /\ analytics_fallback.total_analyses < MaxAnalyses
        /\ IF risk_level \notin DOMAIN analytics_fallback.risk_distribution
           THEN /\ analytics_fallback' = counted
                /\ analytics_raised' =
                      Append(analytics_raised,
                             [error |-> "KeyError", key |-> risk_level])
           ELSE /\ analytics_fallback' =
                      [counted EXCEPT
                          !.risk_distribution[risk_level] = @ + 1,
                          !.platform_stats =
                              IF platform \in DOMAIN stats
                              THEN [stats EXCEPT ![platform] = @ + 1]
                              ELSE Update(stats,
                                          [k \in {platform} |-> 1])]
                /\ UNCHANGED analytics_raised

besideAnalytics ==
    <<scanVars, scoreVars, apiVars, aiVars, vtVars, rlVars, batchVars,
      dbVars, tierVars, tiVars, csVars, aiCacheVars>>

NextAnalytics ==
    \E r \in RiskLevels, p \in Platforms :
        update_analytics(r, p) /\ UNCHANGED besideAnalytics

AnalyticsSpec == Init /\ [][NextAnalytics]_vars

\* ===================================================================
\* Properties of the orchestration
\* ===================================================================
IsVerdict(s) == ret[s].kind = "verdict"

\* The scan ran its adapters itself (it did not return a cached object).
IsMiss(s) == IsVerdict(s) /\ ret[s].ref = s

Tier12Names ==
    {"http_quick", "ai_analysis", "security_headers", "content_lite"}

\* The adapters the scan invokes.
Expected(s) ==
    IF WantsDeep(req[s].options) THEN AdapterNames ELSE Tier12Names

Restrict(d, names) == [n \in DOMAIN d \cap names |-> d[n]]

\* C1: a Tier-2 adapter that is unfinished when the Tier-2 deadline elapses
\* does not make ultra_fast_scan fail: no invocation ends with an error
\* handed to its caller, it returns a verdict instead.
C1_NoErrorReachesCaller ==
    \A s \in ScanIds : pc[s] # "raised" /\ ret[s].kind # "error"

\* C2: Tier 1 is bounded by a deadline of its own: a scan waiting for its
\* Tier-1 adapters leaves Tier 1 even when an adapter never answers.
C2_Tier1IsBounded ==
    \A s \in ScanIds : (pc[s] = "tier1") ~> (pc[s] # "tier1")

\* C3: when the Tier-3 deadline elapses, the verdict records deep_scan as
\* a timeout, keeps the Tier-1 and Tier-2 results, and carries the composite
\* score of the same results scanned with deep_scan disabled.
C3_DeepTimeoutKeepsQuickVerdict ==
    \A s \in ScanIds :
        (IsMiss(s) /\ "deep_scan" \in DOMAIN results[s]
                   /\ "deep_scan" \notin DOMAIN gathered[s])
        => LET v == ret[s].value
               quick == Restrict(gathered[s], Tier12Names)
               quickResults == Update(ProcessTier1(quick["http_quick"],
                                                   quick["ai_analysis"]),
                                      ProcessTier2(quick["security_headers"],
                                                   quick["content_lite"]))
           IN  /\ v.scan_results["deep_scan"].status = "timeout"
               /\ Restrict(v.scan_results, Tier12Names) = quickResults
               /\ v.composite_score
                      = _compile_optimized_results(req[s].url, quickResults,
                                                   now).composite_score
               /\ v.summary.overall_risk_level
                      = _get_risk_level(
                            _calculate_composite_score(quickResults)
                                .final_score)

C3_Witness ==
    \E s \in ScanIds :
        /\ IsMiss(s)
        /\ "deep_scan" \in DOMAIN results[s]
        /\ "deep_scan" \notin DOMAIN gathered[s]
        /\ ~HasError(results[s]["ai_analysis"])
        /\ HasError(results[s]["security_headers"])

\* C4: whatever subset of the adapters returns a failure, the scan ends
\* with a verdict once every adapter has answered, and each adapter that
\* succeeded has its own output recorded unchanged in results and verdict.
C4_FailuresAreAbsorbed ==
    \A s \in ScanIds :
        LET g == gathered[s]
        IN  /\ \A n \in DOMAIN g :
                  ~HasError(g[n]) =>
                      n \in DOMAIN results[s] /\ results[s][n] = g[n]
            /\ \A n \in DOMAIN g :
                  HasError(g[n]) =>
                      n \in DOMAIN results[s] /\ HasError(results[s][n])
            /\ (pc[s] # "idle" /\ DOMAIN g = Expected(s))
                  => /\ pc[s] = "done"
                     /\ IsMiss(s)
                     /\ DOMAIN ret[s].value.scan_results = Expected(s)
                     /\ \A n \in DOMAIN g :
                           ~HasError(g[n]) =>
                               ret[s].value.scan_results[n] = g[n]

C4_Witness ==
    \E s \in ScanIds :
        /\ pc[s] = "done"
        /\ IsMiss(s)
        /\ DOMAIN gathered[s] = AdapterNames
        /\ \A n \in AdapterNames : HasError(gathered[s][n])

\* A second reachable case of C4: one adapter of each tier fails.
C4_WitnessMixed ==
    \E s \in ScanIds :
        /\ pc[s] = "done"
        /\ IsMiss(s)
        /\ DOMAIN gathered[s] = AdapterNames
        /\ HasError(gathered[s]["http_quick"])
        /\ ~HasError(gathered[s]["ai_analysis"])
        /\ HasError(gathered[s]["content_lite"])
        /\ ~HasError(gathered[s]["security_headers"])
        /\ ret[s].value.scan_results["ai_analysis"] = AiOk(45, 70)

\* ===================================================================
\* Properties of _calculate_composite_score
\* ===================================================================
Computed == DOMAIN sr_out # {}

Succeeded(r) == ~HasError(r) /\ r # DeepTimeout

\* No entry of the dict is the output of an adapter that succeeded.
NoSignal(sr) == \A n \in DOMAIN sr : ~Succeeded(sr[n])

\* Every Tier-1 and Tier-2 adapter is recorded and failed; the deep scan
\* failed, timed out or did not run.
AllFailed(sr) == Tier12Names \subseteq DOMAIN sr /\ NoSignal(sr)

C6_ScoreBounds ==
    Computed => /\ 0 <= sr_out.final_score /\ sr_out.final_score <= 100
                /\ 0 <= sr_out.confidence /\ sr_out.confidence <= 100

\* The raw score exceeds 100 and the raw confidence is below the floor.
C6_Witness ==
    /\ Computed
    /\ IntOfBase(ScoreSteps(sr_in)) > 100
    /\ TruncDiv(ScoreSteps(sr_in).conf2, 2) < 60
    /\ sr_out.final_score = 100
    /\ sr_out.confidence = 60

\* The record the pipeline stores for adapter n when it fails.
FailureOf(n) ==
    CASE n = "http_quick" -> ProcessOne(HttpFail)
      [] n = "ai_analysis" -> ProcessOne(AiFail)
      [] n = "security_headers" -> ProcessOne(HeadersFail)
      [] n = "content_lite" -> ProcessOne(ContentFail)
      [] n = "deep_scan" -> ProcessOne(DeepFail)

FailOne(sr, n) == [sr EXCEPT ![n] = FailureOf(n)]

\* C7: turning one adapter's success into a failure, the other entries
\* fixed, never increases the confidence of the verdict.
C7_DegradationIsMonotone ==
    Computed =>
        \A n \in DOMAIN sr_in :
            Succeeded(sr_in[n]) =>
                _calculate_composite_score(FailOne(sr_in, n)).confidence
                    <= sr_out.confidence

\* ===================================================================
\* Properties of the scan cache
\* ===================================================================
\* The step is invocation b's call of ultra_fast_scan.
Called(b) == pc[b] = "idle" /\ pc'[b] # "idle"

\* The composite verdict of a report: everything but the per-call
\* performance annotations.
Content(v) ==
    [url |-> v.url, timestamp |-> v.timestamp,
     composite_score |-> v.composite_score, scan_results |-> v.scan_results,
     recommendations |-> v.recommendations, summary |-> v.summary]

\* No invocation other than a and b stored a verdict under a's key.
NoOtherStore(a, b) ==
    \A c \in ScanIds \ {a, b} : ~(IsMiss(c) /\ Key(c) = Key(a))

\* C8: a call with the target and options of an earlier call that ran its
\* adapters and returned (marked cache_hit = false), made no later than
\* cache_ttl after that verdict was stored and with no other store under
\* the key, returns the same composite verdict, marked cache_hit = true.
C8_CacheIdempotence ==
    [][\A a, b \in ScanIds :
          (/\ a # b
           /\ Called(b)
           /\ IsMiss(a)
           /\ Key(b)' = Key(a)
           /\ now - ret[a].value.timestamp <= cache_ttl
           /\ NoOtherStore(a, b))
          => /\ IsVerdict(b)'
             /\ Content(ret'[b].value) = Content(ret[a].value)
             /\ ret[a].value.performance.cache_hit = FALSE
             /\ ret'[b].value.performance.cache_hit = TRUE]_vars

\* The second call is made exactly cache_ttl after the first one stored.
C8_Witness ==
    \E a, b \in ScanIds :
        /\ a # b
        /\ IsMiss(a)
        /\ IsVerdict(b)
        /\ ret[b].ref = a
        /\ start_time[b] - ret[a].value.timestamp = cache_ttl
        /\ ret[b].value.performance.cache_hit = TRUE
        /\ ret[a].value.performance.cache_hit = FALSE

\* C9: a lookup that finds an entry older than cache_ttl returns None and
\* removes the entry; one that finds a younger entry returns the stored
\* verdict and leaves the cache alone; so no verdict is served after
\* created_at + ttl.
C9_NeverServedPastTtl ==
    [][\A b \in ScanIds :
          Called(b) =>
            LET k == Key(b)'
            IN  /\ k \in CacheKeys(scan_cache) =>
                     LET e == CacheEntry(scan_cache, k)
                     IN  IF now - e.timestamp > cache_ttl
                         THEN /\ pc'[b] = "tier1"
                              /\ ~IsVerdict(b)'
                              /\ k \notin CacheKeys(scan_cache')
                         ELSE /\ IsVerdict(b)'
                              /\ ret'[b].ref = e.result
                              /\ scan_cache' = scan_cache
                /\ IsVerdict(b)' =>
                     now - ret'[b].value.timestamp <= cache_ttl]_vars

\* A lookup found the entry of an earlier scan expired and removed it.
C9_Witness ==
    \E a, b \in ScanIds :
        /\ IsMiss(a)
        /\ pc[b] = "tier1"
        /\ Key(b) = Key(a)
        /\ start_time[b] - ret[a].value.timestamp = cache_ttl + 1
        /\ Key(b) \notin CacheKeys(scan_cache)

\* The request's cache_enabled option (UltraAnalysisRequest defaults it
\* to true).
CacheEnabled(options) == Get(options, "cache_enabled", TRUE)

\* C10: the cache is used only when cache_enabled is true: no entry is
\* stored for a request with cache_enabled = false, and such a request is
\* never answered with a cached verdict.
C10_CacheOnlyWhenEnabled ==
    /\ \A i \in DOMAIN scan_cache : CacheEnabled(scan_cache[i].key[2])
    /\ \A b \in ScanIds :
          (IsVerdict(b) /\ ~CacheEnabled(req[b].options)) => ret[b].ref = b

\* C10, second half alone: a request with cache_enabled = false is never
\* answered with a cached verdict.
C10_DisabledNeverHits ==
    \A b \in ScanIds :
        (IsVerdict(b) /\ ~CacheEnabled(req[b].options)) => ret[b].ref = b

\* The object a returned verdict refers to, as the caller sees it now.
Held(s) == heap[ret[s].ref]

\* C11: a verdict returned to a caller is never modified afterwards: the
\* object returned by a scan that ran its adapters keeps the annotations
\* it was returned with (cache_hit = false, its total_time_ms), whatever
\* later scans of the same key do.
C11_ReturnedVerdictIsImmutable ==
    \A a \in ScanIds :
        IsMiss(a) =>
            /\ Held(a).performance.cache_hit = FALSE
            /\ Held(a).performance.total_time_ms
                  = ret[a].value.performance.total_time_ms
            /\ Held(a) = ret[a].value

\* The invocation runs, or has run, the Tier-3 adapter
\* _comprehensive_deep_scan.
InvokedDeep(s) == pc[s] = "tier3" \/ "deep_scan" \in DOMAIN results[s]

\* C12: the Tier-3 deep-scan adapter is invoked only for scans requested
\* with deep_scan = true, per-URL scans of a batch request included.
C12_DeepOnlyWhenRequested ==
    \A s \in ScanIds :
        (request[s].endpoint # "none" /\ ~request[s].deep_scan)
            => ~InvokedDeep(s)

\* ===================================================================
\* Properties of the AI ensemble
\* ===================================================================
Analyzed == DOMAIN ai_decision # {}

\* The answers that count: those without an error.
Successful == ValidResults(ai_results)

\* The answers of groq and anthropic are exactly these, openai is not
\* configured.
TwoProviders(r1, r2) == ai_results = <<r1, r2>>

\* C13: the ensemble threat score is the weight-normalised mean over the
\* successful providers only, sum(score * weight) / sum(weight), as an
\* integer; 65 for scores 80 and 40 under weights 0.5 and 0.3, and 80 when
\* the second provider fails.
C13_EnsembleIsSuccessfulMean ==
    (Analyzed /\ Successful # <<>>)
        => /\ ai_decision.threat_score * WeightSum(Successful)
                 <= WeightedSum(Successful, "threat_score", 50)
           /\ WeightedSum(Successful, "threat_score", 50)
                 < (ai_decision.threat_score + 1) * WeightSum(Successful)

\* C13, the two worked examples and the choice of divisor alone.
C13_WorkedExamples ==
    /\ \A c1, c2 \in ProviderConfidences :
          /\ (Analyzed /\ TwoProviders(ProviderOk("groq", 80, c1),
                                        ProviderOk("anthropic", 40, c2)))
                => ai_decision.threat_score = 65
          /\ (Analyzed /\ TwoProviders(ProviderOk("groq", 80, c1),
                                        ProviderFail("anthropic")))
                => ai_decision.threat_score = 80
    /\ (Analyzed /\ Successful # <<>>)
          => ai_decision.threat_score
                \in {TruncDiv(WeightedSum(Successful, "threat_score", 50),
                              WeightSum(Successful)) - d : d \in {0, 1}}

C13_Witness ==
    /\ Analyzed
    /\ TwoProviders(ProviderOk("groq", 80, 90), ProviderFail("anthropic"))
    /\ ai_decision.threat_score = 80

\* The composite score of a scan whose HTTP check gave h and whose AI
\* entry is a (Absent: no AI entry at all).
ScoreWithAi(h, a) ==
    _calculate_composite_score(MkResults(h, a, Absent, Absent, Absent))

\* C14: when zero AI providers succeed the AI category is left out of the
\* composite score: the final score is that of the same scan without an
\* AI signal (no entry, or a failed one), and the confidence is lower than
\* with no AI entry.
C14_AiOmittedWhenNoneSucceed ==
    (Analyzed /\ Successful = <<>>)
        => \A h \in HttpChoices :
              LET got == ScoreWithAi(h, _ai_analysis_optimized(ai_decision))
              IN  /\ got.final_score = ScoreWithAi(h, Absent).final_score
                  /\ got.final_score
                        = ScoreWithAi(h, ProcessOne(AiFail)).final_score
                  /\ got.confidence < ScoreWithAi(h, Absent).confidence

\* ===================================================================
\* Properties of the VirusTotal health record
\* ===================================================================
\* The step reports an outcome to _update_health_from_scan.
Reports == Len(outcomes') = Len(outcomes) + 1

\* The number of failed outcomes at the end of a history.
RECURSIVE Streak(_)
Streak(os) ==
    IF os = <<>> \/ os[Len(os)] THEN 0
    ELSE 1 + Streak(SubSeq(os, 1, Len(os) - 1))

\* The status that goes with a failure count.
StatusOf(failures) ==
    IF failures = 0 THEN "connected"
    ELSE IF failures < ErrorThreshold THEN "degraded"
    ELSE "error"

\* C15: whatever the health state before, the third and every later
\* failed outcome in a row leaves status error, the first and second leave
\* degraded, and a successful outcome leaves status connected and
\* consecutive_failures 0 however long the streak was.
C15_HealthTransitions ==
    [][Reports =>
          LET k == Streak(outcomes')
          IN  /\ k >= 3 => health_cache'.status = "error"
              /\ k \in {1, 2} => health_cache'.status = "degraded"
              /\ k = 0 => /\ health_cache'.status = "connected"
                          /\ health_cache'.consecutive_failures = 0]_vars

\* Four failures in a row, then a success.
C15_Witness ==
    /\ Len(outcomes) = 5
    /\ \A i \in 1 .. 4 : ~outcomes[i]
    /\ outcomes[5]
    /\ health_cache.status = "connected"
    /\ health_cache.consecutive_failures = 0

\* C16: once an outcome has been recorded, status is the value that goes
\* with consecutive_failures, whatever calls were made.
C16_StatusFollowsFailureCount ==
    Len(outcomes) >= 1
        => health_cache.status = StatusOf(health_cache.consecutive_failures)

\* The part of the health record C17 speaks of.
HealthCounters ==
    <<health_cache.status, health_cache.consecutive_failures,
      health_cache.total_scans, health_cache.successful_scans>>

\* C17: a call of scan_url, get_url_report or scan_file_hash that sends no
\* request because there is no client leaves the health record alone.
C17_NoRequestNoHealthChange ==
    [][\A c \in VtCallers, op \in VtMethods :
          (VtCall(c, op) /\ ~client) => HealthCounters' = HealthCounters]_vars

\* A return value of health_check or get_api_quota.
IsHealthResponse(r) ==
    "message" \in DOMAIN r \/ "remaining_requests" \in DOMAIN r

\* C18: a step that returns a health or quota response sends no request
\* and leaves the health record, the rate-limit window and every caller
\* alone; the response shows the recorded status.
C18_HealthQueriesArePassive ==
    [][(vt_out' # vt_out /\ IsHealthResponse(vt_out'))
          => /\ UNCHANGED <<health_cache, request_times, network, vt_pc,
                            outcomes, permits, client, vt_now>>
             /\ vt_out'.status = health_cache.status
             /\ vt_out'.total_scans = health_cache.total_scans]_vars

\* A health response taken after real scans failed three times, with
\* requests in the window.
C18_Witness ==
    /\ "message" \in DOMAIN vt_out
    /\ vt_out.status = "error"
    /\ vt_out.consecutive_failures = 3
    /\ vt_out.rate_limit_remaining = 1
    /\ network = 4


\* The calls of a log, in the order they were made one after another: each
\* of the first `limit` returned at once, and the next one, entered
\* `elapsed` after the first, returned no sooner than window - elapsed
\* later.
BurstHonoured(log, limit, window) ==
    /\ \A i \in DOMAIN log : i <= limit => log[i].left = log[i].entered
    /\ Len(log) > limit =>
          log[limit + 1].left - log[limit + 1].entered
              >= window - (log[limit + 1].entered - log[1].entered)

\* C19: with limit 4 per 60, of 5 calls made one after another in rapid
\* succession the first 4 return without waiting and the 5th is suspended
\* for at least 60 minus the time elapsed since the 1st call; this holds
\* for _rate_limit_check and for RateLimiter.acquire.
C19_FifthCallWaits ==
    /\ BurstHonoured(permits, rate_limit, RateWindow)
    /\ BurstHonoured(rl_permits, max_requests, time_window)
    /\ \A i \in DOMAIN rl_permits : rl_permits[i].granted

\* A fifth call of each limiter, made after the first, has slept and
\* returned.
C19_Witness ==
    /\ Len(permits) > rate_limit
    /\ permits[rate_limit + 1].entered > permits[1].entered
    /\ permits[rate_limit + 1].left > permits[rate_limit + 1].entered
    /\ Len(rl_permits) > max_requests
    /\ rl_permits[max_requests + 1].entered > rl_permits[1].entered
    /\ rl_permits[max_requests + 1].left
           > rl_permits[max_requests + 1].entered

\* The passes of a log that returned in the window trailing pass i.
InTrailingWindow(log, i) ==
    {j \in DOMAIN log :
        /\ log[j].left <= log[i].left
        /\ log[i].left - log[j].left < RateWindow}

\* C20: under concurrent callers of _rate_limit_check, the number of
\* callers that return from it within any trailing 60-second window never
\* exceeds rate_limit.
C20_WindowNeverExceeded ==
    \A i \in DOMAIN permits :
        Cardinality(InTrailingWindow(permits, i)) <= rate_limit

\* The acquire() calls that returned True in the window trailing call i.
GrantedInWindow(i) ==
    {j \in DOMAIN rl_permits :
        /\ rl_permits[j].granted
        /\ rl_permits[j].left <= rl_permits[i].left
        /\ rl_permits[i].left - rl_permits[j].left < time_window}

\* C21: under concurrent callers of RateLimiter.acquire and any
\* interleaving at the sleep, the number of calls that return True within
\* any trailing time_window never exceeds max_requests, and the recorded
\* window never holds more than max_requests timestamps.
C21_AcquireWindowIsSafe ==
    /\ Len(requests) <= max_requests
    /\ \A i \in DOMAIN rl_permits :
          rl_permits[i].granted =>
              Cardinality(GrantedInWindow(i)) <= max_requests

\* Two callers slept at the same time on a full window and both were
\* granted, and more calls were granted after them.
C21_Witness ==
    \E i, j \in DOMAIN rl_permits :
        /\ rl_permits[i].caller # rl_permits[j].caller
        /\ rl_permits[i].granted /\ rl_permits[j].granted
        /\ rl_permits[i].entered < rl_permits[j].left
        /\ rl_permits[j].entered < rl_permits[i].left
        /\ rl_permits[i].held >= max_requests
        /\ rl_permits[j].held >= max_requests
        /\ i < j /\ j < Len(rl_permits)
        /\ rl_permits[Len(rl_permits)].granted

\* An acquire() call returns False in this step.
Denied ==
    /\ Len(rl_permits') = Len(rl_permits) + 1
    /\ ~rl_permits'[Len(rl_permits')].granted

\* No caller of either limiter is suspended in it.
NoneSuspended ==
    \A c \in VtCallers :
        vt_pc[c].at # "sleeping" /\ rl_pc[c].at # "sleeping"

\* C22: with finitely many calls, no caller that finds the per-window
\* limit reached waits forever: from some point on every caller of
\* _rate_limit_check and of RateLimiter.acquire has returned; and acquire
\* suspends rather than fails, returning False only when the daily cap is
\* reached.
C22_NoCallerWaitsForever ==
    /\ <>[]NoneSuspended
    /\ [][Denied => daily_requests >= DailyLimit]_vars

\* Both callers of each limiter were suspended at the same time and have
\* all returned, one acquire() call having slept before it was denied.
C22_Witness ==
    /\ \A c \in VtCallers : vt_pc[c].at = "idle" /\ rl_pc[c].at = "idle"
    /\ \E i, j \in DOMAIN permits :
          /\ permits[i].caller # permits[j].caller
          /\ permits[i].entered < permits[j].left
          /\ permits[j].entered < permits[i].left
          /\ permits[i].left > permits[i].entered
          /\ permits[j].left > permits[j].entered
    /\ \E i, j \in DOMAIN rl_permits :
          /\ rl_permits[i].caller # rl_permits[j].caller
          /\ rl_permits[i].left > rl_permits[i].entered
          /\ rl_permits[j].left > rl_permits[j].entered
          /\ rl_permits[i].granted
          /\ ~rl_permits[j].granted

\* ===================================================================
\* Properties of batch_scan_urls
\* ===================================================================
\* C23: batch_scan_urls never has more than max_concurrent per-URL scans
\* in flight at the same time, also when scans raise, and reports
\* total_urls equal to the number of targets.
C23_BatchConcurrencyIsBounded ==
    /\ Cardinality(InFlight) <= max_concurrent
    /\ batch_result # NoResult =>
          batch_result.batch_scan_results.total_urls = Len(urls)

\* Every slot is taken while a target still waits, after a scan that
\* raised gave its slot back.
C23_Witness ==
    /\ Cardinality(InFlight) = max_concurrent
    /\ \E i \in DOMAIN tasks : tasks[i].at = "waiting"
    /\ \E i \in DOMAIN tasks : tasks[i].result = "exception"

\* A report was returned for more targets than slots, one scan having
\* raised.
C23_WitnessReported ==
    /\ batch_result # NoResult
    /\ Len(urls) > max_concurrent
    /\ batch_result.batch_scan_results.failed > 0

\* C24: a scan that raises does not abort the others: in the report every
\* target appears with the verdict or the error of its own scan, and
\* successful + failed = total_urls = number of targets, also for lists
\* with duplicate URLs.
C24_EveryTargetIsReported ==
    batch_result # NoResult =>
        /\ \A i \in DOMAIN urls :
              /\ tasks[i].at = "done"
              /\ urls[i] \in DOMAIN batch_result.individual_results
              /\ batch_result.individual_results[urls[i]] = tasks[i].result
        /\ batch_result.batch_scan_results.successful
             + batch_result.batch_scan_results.failed
             = batch_result.batch_scan_results.total_urls
        /\ batch_result.batch_scan_results.total_urls = Len(urls)

\* ===================================================================
\* Properties of the endpoints
\* ===================================================================
\* C25: a malformed URL or empty target is rejected before any adapter is
\* invoked: no scan of such a target leaves its idle position, and no
\* cache entry is stored for it.
C25_InvalidTargetIsRejected ==
    /\ \A s \in ScanIds :
          pc[s] # "idle" => req[s].url \notin MalformedTargets
    /\ \A i \in DOMAIN scan_cache :
          scan_cache[i].key[1] \notin MalformedTargets

\* C26: a failure of the persistence sink never fails the scan: once a
\* verdict (or a batch report) was computed, the answer to the request
\* carries it.
C26_SinkFailureNeverFailsScan ==
    /\ \A s \in ScanIds :
          (response[s] # NoResponse /\ ret[s].kind = "verdict") =>
              response[s].status = 200
    /\ (batch_response # NoResponse /\ batch_result # NoResult) =>
          batch_response.status = 200

\* ===================================================================
\* Worked scenarios of the composite score
\* ===================================================================
\* Only the HTTP check contributed a signal: status 200 in 50 ms, every
\* other adapter absent, failed or timed out.
OnlyReachability ==
    /\ Computed
    /\ "http_quick" \in DOMAIN sr_in
    /\ sr_in["http_quick"] = HttpOk(200, 50)
    /\ \A n \in DOMAIN sr_in \ {"http_quick"} : ~Succeeded(sr_in[n])

HighThreatAndHits ==
    /\ Computed
    /\ "ai_analysis" \in DOMAIN sr_in
    /\ sr_in["ai_analysis"] = AiOk(90, 90)
    /\ "content_lite" \in DOMAIN sr_in
    /\ ~HasError(sr_in["content_lite"])
    /\ sr_in["content_lite"].suspicious_keywords_count = 3

\* C28: when the AI adapter reports threat_score 90 with confidence 90 and
\* the pattern-database adapter reports 3 hits, the verdict has
\* final_score < 40 and risk_level in {high, critical}.
C28_ScenarioB ==
    HighThreatAndHits =>
        /\ sr_out.final_score < 40
        /\ _get_risk_level(sr_out.final_score) \in {"high", "critical"}

\* ===================================================================
\* Properties of the tiers
\* ===================================================================
Started(names) == \E n \in Range(names) : adapters[n].at # "new"

\* C29: within one scan no Tier-2 adapter starts before every Tier-1
\* adapter has completed, and the Tier-3 adapter does not start before
\* every Tier-2 adapter has completed or Tier 2 has timed out.
C29_TiersRunInOrder ==
    /\ Started(medium_priority_tasks) => AllDone(high_priority_tasks)
    /\ Started(low_priority_tasks) =>
          \/ AllDone(medium_priority_tasks)
          \/ \E n \in Range(medium_priority_tasks) :
                adapters[n].at = "cancelled"

\* The deep scan runs after both Tier-2 adapters completed, the second
\* task of each tier having completed first.
C29_Witness ==
    /\ adapters["deep_scan"].at = "running"
    /\ arrival = <<"ai_analysis", "http_quick", "content_lite",
                   "security_headers">>

\* C30: the verdict is independent of adapter completion order: each
\* output is stored in scan_results under its own adapter's name, and
\* the composite score is that of this mapping, whatever the order in
\* which the adapters completed.
C30_VerdictIgnoresArrival ==
    ret[1].kind = "verdict" =>
        /\ \A n \in AdapterNames :
              adapters[n].at = "done" =>
                  /\ n \in DOMAIN results[1]
                  /\ results[1][n] = ProcessOne(adapters[n].out)
        /\ ret[1].value.scan_results = results[1]
        /\ ret[1].value.composite_score
             = _calculate_composite_score(results[1])

\* A verdict for a scan in which the second task of each tier completed
\* first and the two adapters of each tier gave different outcomes.
C30_Witness ==
    /\ ret[1].kind = "verdict"
    /\ arrival = <<"ai_analysis", "http_quick", "content_lite",
                   "security_headers">>
    /\ HasError(adapters["http_quick"].out)
    /\ ~HasError(adapters["ai_analysis"].out)
    /\ ~HasError(adapters["security_headers"].out)
    /\ HasError(adapters["content_lite"].out)

\* ===================================================================
\* Properties of the health counters
\* ===================================================================
\* The requests the three scan methods have sent: each one follows a pass
\* through _rate_limit_check.
MethodRequests == Len(permits)

\* C31: every outcome of a real call to the dependency is counted
\* exactly once: once the invocations of scan_url, get_url_report and
\* scan_file_hash have returned, total_scans equals the number of
\* network requests they issued.
C31_EveryRequestCountedOnce ==
    vt_pc[1].at = "idle" => health_cache.total_scans = MethodRequests

\* ===================================================================
\* Properties of the cache's size management
\* ===================================================================
\* C32: after any sequence of stores the scan cache holds at most
\* max_cache_size entries, and a store that evicts removes only the
\* entries that are oldest by timestamp: no evicted entry is newer than
\* an entry that is kept.
C32_StoreEvictsOldest ==
    [][\A after \in {CacheKeys(scan_cache')} :
         \A evicted \in {{scan_cache[i].timestamp :
                             i \in {j \in DOMAIN scan_cache :
                                      scan_cache[j].key \notin after}}} :
           \A kept \in {{scan_cache'[i].timestamp :
                            i \in {j \in DOMAIN scan_cache' :
                                     scan_cache'[j].timestamp < now'}}} :
              /\ Len(scan_cache') <= max_cache_size
              /\ \A e \in evicted, k \in kept : e <= k]_vars

\* A store found the cache full and evicted a batch: the entry inserted
\* first, stored again last, is among those kept.
C32_Witness ==
    /\ Len(scan_cache) = max_cache_size - EvictBatch + 1
    /\ scan_cache[Len(scan_cache)].timestamp = now
    /\ FillerKey(1) \in CacheKeys(scan_cache)

\* ===================================================================
\* Properties of concurrent scans of one key
\* ===================================================================
\* Scan s takes the step in which the miss path stores and returns.
StoresNow(s) == pc[s] \in {"tier2", "tier3"} /\ pc'[s] = "done"

EntriesOf(cache, key) == {i \in DOMAIN cache : cache[i].key = key}

\* C33: when two scans of the same key run concurrently and both miss
\* the cache, both run their adapters and both store; the cache holds
\* exactly one entry for the key, and after each store it is the verdict
\* of the scan that stored, so after both it is that of the last one.
C33_LastWriterWins ==
    [][\A s \in ScanIds :
         StoresNow(s) =>
            /\ Cardinality(EntriesOf(scan_cache', Key(s))) = 1
            /\ CacheEntry(scan_cache', Key(s)).result = s
            /\ CacheEntry(scan_cache', Key(s)).timestamp = now
            /\ ret'[s] = Returned(s, heap'[s])]_vars

\* Two scans of one key both missed; scan 2 stored first and scan 1, a
\* second later, stored last: the entry is scan 1's verdict.
C33_Witness ==
    /\ pc = [s \in ScanIds |-> "done"]
    /\ Key(1) = Key(2)
    /\ ret[1].kind = "verdict" /\ ret[1].ref = 1
    /\ ret[2].kind = "verdict" /\ ret[2].ref = 2
    /\ heap[2].timestamp < heap[1].timestamp
    /\ Cardinality(EntriesOf(scan_cache, Key(1))) = 1
    /\ CacheEntry(scan_cache, Key(1)).result = 1

\* ===================================================================
\* Properties of the cache-hit path
\* ===================================================================
\* ultra_fast_scan is entered for scan s with a key whose entry is fresh.
HitsNow(s) ==
    /\ pc[s] = "idle" /\ pc'[s] # "idle"
    /\ _generate_cache_key(req'[s].url, req'[s].options)
          \in CacheKeys(scan_cache)
    /\ ~Expired(CacheEntry(scan_cache,
                           _generate_cache_key(req'[s].url,
                                               req'[s].options)), now)

\* C34: a scan that hits the cache goes from the lookup directly to
\* done: it gathers no adapter output, scores nothing, stores nothing and
\* leaves the cache's entries and their timestamps as they were.
C34_HitGoesStraightToDone ==
    [][\A s \in ScanIds :
         HitsNow(s) =>
            /\ pc'[s] = "done"
            /\ gathered' = gathered
            /\ results' = results
            /\ scan_cache' = scan_cache
            /\ ret'[s].kind = "verdict"
            /\ ret'[s].ref = CacheEntry(scan_cache, Key(s)').result]_vars

\* Scan 2 was answered from the entry scan 1 stored a second earlier, and
\* the entry still carries the time of the store.
C34_Witness ==
    /\ ret[2].kind = "verdict" /\ ret[2].ref = 1
    /\ results[2] = EmptyDict
    /\ Key(2) \in CacheKeys(scan_cache)
    /\ CacheEntry(scan_cache, Key(2)).timestamp < now

\* ===================================================================
\* Properties of the threat intelligence
\* ===================================================================
\* The last call ran its checks and the pattern database matched.
PatternMatched == ti_results # <<>> /\ ti_results[4].threat_count >= 1

\* The report for the same results with no match in the database.
WithoutPatterns ==
    _compile_threat_intelligence(
        ti_report.url,
        [ti_results EXCEPT ![4] = _check_custom_threat_patterns(<<>>)],
        ti_report.threat_intelligence_timestamp)

\* C35: every match in the custom threat-pattern database counts against
\* the target: when _check_custom_threat_patterns reports at least one
\* detected pattern, the compiled report's overall_threat_level is
\* higher than for the same results with no pattern match.
C35_PatternMatchRaisesThreat ==
    PatternMatched =>
        ti_report.overall_threat_level > WithoutPatterns.overall_threat_level

\* C37: the threat-intelligence cache never holds more than 500 entries
\* after any sequence of _cache_threat_data calls.
C37_ThreatCacheIsBounded == Len(threat_cache) <= ThreatCacheMax

\* ===================================================================
\* Properties of the comprehensive scan
\* ===================================================================
Compiled == cs_report # EmptyDict

\* The SSL analysis reported an invalid certificate.
SslInvalid == ~cs_results[5].ssl_valid

\* The report for the same results with a valid certificate.
WithValidSsl ==
    _compile_scan_results("https://a.example",
                          [cs_results EXCEPT ![5] = _ssl_analysis("valid")])

InSeq(x, seq) == \E i \in DOMAIN seq : seq[i] = x

\* C36: in the comprehensive scan, an SSL analysis that reports an
\* invalid certificate (ssl_valid false) lowers overall_security_score by
\* 25 (down to the floor of 0) and adds "Invalid SSL certificate" to
\* risk_factors.
C36_InvalidSslCosts25 ==
    Compiled /\ SslInvalid =>
        /\ cs_report.comprehensive_analysis.overall_security_score
             = Max(0, WithValidSsl.comprehensive_analysis
                                  .overall_security_score - 25)
        /\ InSeq("Invalid SSL certificate",
                 cs_report.comprehensive_analysis.risk_factors)

\* ===================================================================
\* Properties of the AI analysis cache
\* ===================================================================
\* C38: multi_ai_analysis returns a cached ensemble result only for a
\* call with the same url and the same content as the call that produced
\* it: two calls with the same url but different content never share a
\* cached result.
C38_CachedOnlyForSameContent ==
    \A k \in DOMAIN ai_calls :
        /\ ai_calls[ai_calls[k].from].url = ai_calls[k].url
        /\ ai_calls[ai_calls[k].from].content = ai_calls[k].content

\* ===================================================================
\* Properties of the reported quota
\* ===================================================================
\* The calls made in the trailing window.
CallsInWindow == Len(Pruned(request_times, vt_now))

\* The step is a query, and what it reports.
QueryAnswers ==
    /\ vt_out' # vt_out
    /\ DOMAIN vt_out' \cap {"remaining_requests", "rate_limit_remaining"}
          # {}

Reported(answer) ==
    IF "remaining_requests" \in DOMAIN answer
    THEN answer.remaining_requests
    ELSE answer.rate_limit_remaining

\* C39: the remaining-requests value that health_check and get_api_quota
\* report equals rate_limit minus the number of calls made in the
\* trailing 60-second window; once 60 seconds have passed with no new
\* call it is rate_limit again.
C39_QuotaFollowsWindow ==
    [][QueryAnswers =>
          Reported(vt_out') = Max(0, rate_limit - CallsInWindow)]_vars

\* ===================================================================
\* Properties of the analytics counters
\* ===================================================================
\* C40: after any sequence of update_analytics calls with the risk levels
\* analyze_content_safety produces, no call has raised an error and
\* total_analyses equals the sum of the risk_distribution counters.
C40_AnalyticsStayConsistent ==
    /\ analytics_raised = <<>>
    /\ analytics_fallback.total_analyses =
          analytics_fallback.risk_distribution.high
          + analytics_fallback.risk_distribution.medium
          + analytics_fallback.risk_distribution.low
====
